---- MODULE Spec2Model ----
(***************************************************************************)
(* Timeline synchronisation core of SynapVid: the VideoSpec schema         *)
(* (zod), the narration timing resolver (useNarrationSynthesis), the sync  *)
(* validator (validateSync), the playback time resolver (Scene3DViewer),   *)
(* the shared project state (useProjectState), the editor page, prompt    *)
(* expansion (usePromptExpansion), the subtitle generator                  *)
(* (useVideoAssembly) and the playback loop of the preview page.           *)
(*                                                                         *)
(* Units.  Scene times and duration_target are whole seconds.  Times on   *)
(* the audio timeline (segment start/end, TTS durations, the 1.5 s pause   *)
(* and the 2.0 s gap threshold) are tenths of a second, so 1.5 s is 15.    *)
(* Subtitle cue times are IEEE-754 doubles; the preview page counts        *)
(* milliseconds.                                                           *)
(***************************************************************************)
EXTENDS Integers, Sequences, FiniteSets, TLC

VARIABLES
    \* ---- schema validation ----
    spec,           \* the payload handed to VideoSpecSchema.safeParse
    parseResult,    \* [done, success, issues] of VideoSpecSchema.safeParse
    sceneResult,    \* [done, index, success, issues] of SceneSchema.safeParse
    \* ---- useNarrationSynthesis ----
    narration,      \* per scene of the spec: [start, chunks (their number)]
    pc,             \* "idle" | "awaiting" (a TTS request is outstanding) | "done"
    allChunks,      \* local: flattened [sceneIndex, chunkIndex, startTime] list
    i,              \* local: loop index into allChunks (zero-based)
    segments,       \* local: the segment map being built (insertion order)
    currentTime,    \* local: running cursor
    audioSegments,  \* ref: the composable's published segment map
    error,          \* ref: [kind, chunk]; kind "null" is error.value = null
    isLoading,      \* ref
    progress,       \* ref
    ret,            \* value returned by the last call: [kind, map]
    ttsCalls,       \* per run: the chunk ids a TTS request was issued for
    durations,      \* per run: the durations the TTS answered with, in order
    runs,           \* number of synthesizeNarration calls started
    \* ---- validateSync ----
    syncInput,      \* the segment map handed to validateSync
    syncResult,     \* [done, valid, errors] of validateSync
    \* ---- Scene3DViewer ----
    propsScene,         \* props.scene: [start, events]
    animatedPuckPosition,  \* ref: <<x, y, z>>, each a fraction <<num, den>>
    lastTime,           \* {} before the first call, else {time of the last call}
    \* ---- useProjectState ----
    videoSpec,          \* useState: {} is null, else {spec}
    projectAudioSegments,  \* useState audioSegments: {} is null, else {map}
    projectName,        \* useState
    lastSaved,          \* useState: {} is null, else {"date"}
    storage,            \* localStorage['synapvid-project']: {} absent, else {text}
    importFile,         \* {} or {file whose text() an importProject awaits}
    importRet,          \* {} or {what the last importProject returned}
    lastOp,             \* name of the last project-state operation run
    \* ---- editor page ----
    editorSpec,         \* the page's reactive spec
    shared,             \* videoSpec.value is the very object editorSpec
    synthPending,       \* {} or {spec had chunks}: synthesizeAudio awaits
    edits,              \* number of editing operations done so far
    \* ---- usePromptExpansion ----
    promptPc,           \* "idle" | "fetching" | "backoff" | "done"
    attempt,            \* local of callOpenAIWithRetry
    requests,           \* requests to /api/openai/expand made by the call
    generatedSpec,      \* ref: {} is null, else {spec}
    promptError,        \* ref error: "" is null, else the message
    promptLoading,      \* ref isLoading
    promptRet,          \* {} no return yet, else {{}} for null or {{spec}}
    response,           \* what the call's $fetch resolved with: [got, body]
    expandCalls,        \* number of expandPrompt calls started
    \* ---- useVideoAssembly: generateSubtitles ----
    vttSpec,            \* scenes of the spec handed over: [start, end, narration]
    vtt,                \* the cues of the text returned, in order
    vttDone,            \* generateSubtitles has returned
    \* ---- preview page (times in milliseconds) ----
    pageScenes,         \* computed scenes: [start, end] of the project's scenes
    pageDuration,       \* computed duration
    pageAudio,          \* computed audioSegments: [id, start, end] each
    mounted,            \* the page is mounted
    isPlaying,          \* ref
    playTime,           \* ref currentTime of the page
    currentSceneIndex,  \* ref (zero-based)
    playbackAnimationFrame,  \* {} is null, else {the id requestAnimationFrame gave}
    pendingFrames,      \* ids of the frame callbacks requested and not yet run or cancelled
    activeAudioSegments,  \* ref: set of chunk ids
    startedAudio,       \* chunk ids whose audio element is playing
    canplayListeners,   \* chunk ids whose element has an onCanPlay listener
    loadedAudio         \* chunk ids whose element has readyState >= 2

vVars == <<spec, parseResult, sceneResult>>
nVars == <<narration, pc, allChunks, i, segments, currentTime, audioSegments,
           error, isLoading, progress, ret, ttsCalls, durations, runs>>
sVars == <<syncInput, syncResult>>
pVars == <<propsScene, animatedPuckPosition, lastTime>>
jVars == <<videoSpec, projectAudioSegments, projectName, lastSaved, storage,
           importFile, importRet, lastOp>>
eVars == <<editorSpec, shared, synthPending, edits>>
xVars == <<promptPc, attempt, requests, generatedSpec, promptError,
           promptLoading, promptRet, response, expandCalls>>
tVars == <<vttSpec, vtt, vttDone>>
wVars == <<pageScenes, pageDuration, pageAudio, mounted, isPlaying, playTime,
           currentSceneIndex, playbackAnimationFrame, pendingFrames,
           activeAudioSegments, startedAudio, canplayListeners, loadedAudio>>
vars == <<spec, parseResult, sceneResult,
          narration, pc, allChunks, i, segments, currentTime, audioSegments,
          error, isLoading, progress, ret, ttsCalls, durations, runs,
          syncInput, syncResult,
          propsScene, animatedPuckPosition, lastTime,
          videoSpec, projectAudioSegments, projectName, lastSaved, storage,
          importFile, importRet, lastOp,
          editorSpec, shared, synthPending, edits,
          promptPc, attempt, requests, generatedSpec, promptError,
          promptLoading, promptRet, response, expandCalls,
          vttSpec, vtt, vttDone,
          pageScenes, pageDuration, pageAudio, mounted, isPlaying, playTime,
          currentSceneIndex, playbackAnimationFrame, pendingFrames,
          activeAudioSegments, startedAudio, canplayListeners, loadedAudio>>

\* what the operations of one part leave alone: the state of the others
NotValidate == <<nVars, sVars, pVars, jVars, eVars, xVars, tVars, wVars>>
NotNarration == <<vVars, sVars, pVars, jVars, eVars, xVars, tVars, wVars>>
NotSync == <<vVars, nVars, pVars, jVars, eVars, xVars, tVars, wVars>>
NotPlayback == <<vVars, nVars, sVars, jVars, eVars, xVars, tVars, wVars>>
NotProject == <<vVars, nVars, sVars, pVars, xVars, tVars, wVars>>
NotExpand == <<vVars, nVars, sVars, pVars, jVars, eVars, tVars, wVars>>
NotSubtitles == <<vVars, nVars, sVars, pVars, jVars, eVars, xVars, wVars>>
NotPreview == <<vVars, nVars, sVars, pVars, jVars, eVars, xVars, tVars>>

(***************************************************************************)
(* Bounds of the model                                                     *)
(***************************************************************************)
MaxScenes == 2      \* scenes per spec
MaxChunks == 2      \* narration chunks per scene
MaxRuns == 2        \* synthesizeNarration calls per behaviour
MaxSegs == 3        \* entries of a segment map handed to validateSync
MaxEvents == 2      \* events of the scene shown by the viewer
MaxEdits == 2       \* editing operations done on the editor's spec
MaxExpandCalls == 2 \* expandPrompt calls per behaviour

\* scene start/end values tried (seconds): around duration_target + 5
SceneTimes == {0, 85, 86}
\* duration_target values tried: both sides of both limits
DurationTargets == {79, 80, 180, 181}
\* scene types tried: one of the enum and one custom category
InputTypes == {"intro", "custom"}
\* scene starts tried by the narration resolver (tenths of a second)
SceneStarts == {0, 50}
\* playback: scene starts tried (tenths of a second)
PlaybackStarts == {0, 50}
\* playback: event offsets t tried (tenths, relative to the scene start)
EventTimes == {0, 30}
\* playback: event durations tried: absent ({}) or 2.0 s
EventDurations == {{}, {20}}
\* playback: query times tried, as offsets from the scene start (tenths):
\* before the start, at it, inside and at the end of a 1.0 s window, between
\* two events, inside the second event, after everything
QueryOffsets == {0 - 10, 0, 5, 10, 25, 35, 60}
\* TTS durations (tenths of a second): 1.5 s and 2.0 s
TTSDurations == {15, 20}
\* segment start/end values tried (tenths): gaps of 0, 2.0 s, 2.1 s, overlaps
SegTimes == {0, 10, 30, 31}

(***************************************************************************)
(* VideoSpec schema                                                        *)
(***************************************************************************)
MinDurationTarget == 80
MaxDurationTarget == 180
DurationBuffer == 5

\* mutant: the lower limit taken as exclusive
DurationTargetIssues_Exclusive(d) ==
    (IF d <= MinDurationTarget THEN {<<"duration_too_small", 0>>} ELSE {})
    \cup (IF d > MaxDurationTarget THEN {<<"duration_too_big", 0>>} ELSE {})

\* duration_target: z.number().min(80).max(180)
DurationTargetIssues(d) ==
    (IF d < MinDurationTarget THEN {<<"duration_too_small", 0>>} ELSE {})
    \cup (IF d > MaxDurationTarget THEN {<<"duration_too_big", 0>>} ELSE {})

\* z.enum(['intro', 'skill1', 'skill2', 'summary'])
SceneTypeSchema == {"intro", "skill1", "skill2", "summary"}

\* mutant: the type taken as any string
SceneTypeOk_Open(type) == TRUE

\* z.enum fails with an aborting issue on a value outside the enum
SceneTypeOk(type) == type \in SceneTypeSchema

\* mutant: end == start let through
SceneBoundsOk_NonStrict(scene) == scene.end >= scene.start

\* .refine((scene) => scene.end > scene.start)
SceneBoundsOk(scene) == scene.end > scene.start

\* Issues of SceneSchema for the scene at path idx.  An aborted object
\* (invalid enum value) does not reach the refinement.
SceneSchemaIssues(scene, idx) ==
    IF ~SceneTypeOk(scene.type)
    THEN {<<"invalid_scene_type", idx>>}
    ELSE (IF scene.start < 0 THEN {<<"start_too_small", idx>>} ELSE {})
         \cup (IF scene.end < 0 THEN {<<"end_too_small", idx>>} ELSE {})
         \cup (IF ~SceneBoundsOk(scene) THEN {<<"scene_bounds", idx>>} ELSE {})

\* SceneSchema.safeParse(scene)
SceneSchemaParse(scene) ==
    LET iss == SceneSchemaIssues(scene, 0)
    IN [success |-> iss = {}, issues |-> iss]

\* Array.prototype.sort((a, b) => a.start - b.start) on a copy: stable,
\* modelled as insertion of each element after the elements not greater.
RECURSIVE InsertByStart(_, _)
InsertByStart(sorted, x) ==
    IF sorted = <<>> THEN <<x>>
    ELSE IF Head(sorted).start <= x.start
         THEN <<Head(sorted)>> \o InsertByStart(Tail(sorted), x)
         ELSE <<x>> \o sorted

RECURSIVE SortByStart(_)
SortByStart(scenes) ==
    IF scenes = <<>> THEN <<>>
    ELSE InsertByStart(SortByStart(SubSeq(scenes, 1, Len(scenes) - 1)),
                       scenes[Len(scenes)])

\* mutant: adjacent scenes compared in array order, without the sort
NoOverlapRefine_Unsorted(s) ==
    \A k \in 1..(Len(s.scenes) - 1) :
       ~(s.scenes[k].end > s.scenes[k + 1].start)

\* first refinement of VideoSpecSchema: scenes must not overlap
NoOverlapRefine(s) ==
    LET sortedScenes == SortByStart(s.scenes)
    IN \A k \in 1..(Len(sortedScenes) - 1) :
          ~(sortedScenes[k].end > sortedScenes[k + 1].start)

\* second refinement of VideoSpecSchema: last scene against the target
DurationRefine(s) ==
    IF Len(s.scenes) > 0
    THEN s.scenes[Len(s.scenes)].end <= s.duration_target + DurationBuffer
    ELSE TRUE

\* VideoSpecSchema.safeParse(s).  Range and length failures leave the parse
\* dirty, so both refinements still run; an invalid enum value aborts the
\* object and the refinements are skipped.
VideoSpecSchemaParse(s) ==
    LET base ==
            DurationTargetIssues(s.duration_target)
            \cup (IF Len(s.scenes) < 1 THEN {<<"no_scenes", 0>>} ELSE {})
            \cup UNION {SceneSchemaIssues(s.scenes[k], k) : k \in 1..Len(s.scenes)}
        aborted == \E k \in 1..Len(s.scenes) : ~SceneTypeOk(s.scenes[k].type)
        refined ==
            IF aborted THEN {}
            ELSE (IF ~NoOverlapRefine(s) THEN {<<"overlap", 0>>} ELSE {})
                 \cup (IF ~DurationRefine(s) THEN {<<"duration_mismatch", 0>>} ELSE {})
        iss == base \cup refined
    IN [success |-> iss = {}, issues |-> iss]

\* ---- inputs ----
SceneInputs == [type : InputTypes, start : SceneTimes, end : SceneTimes]

\* the payloads tried that have n scenes
SpecInputs(n) == [duration_target : DurationTargets,
                  scenes : [1..n -> SceneInputs]]

NoSpec == [duration_target |-> 0, scenes |-> <<>>]

\* no safeParse has returned yet
PendingParse == [done |-> FALSE, success |-> FALSE, issues |-> {}]
PendingScene == [done |-> FALSE, index |-> 0, success |-> FALSE, issues |-> {}]

\* ---- actions ----
\* VideoSpecSchema.safeParse(spec)
ParseSpec ==
    /\ ~parseResult.done
    /\ parseResult' = [done |-> TRUE,
                       success |-> VideoSpecSchemaParse(spec).success,
                       issues |-> VideoSpecSchemaParse(spec).issues]
    /\ UNCHANGED <<spec, sceneResult>>
    /\ UNCHANGED NotValidate

\* SceneSchema.safeParse(spec.scenes[k]) for one scene of the payload
ParseScene ==
    /\ ~sceneResult.done
    /\ \E k \in 1..Len(spec.scenes) :
          sceneResult' = [done |-> TRUE, index |-> k,
                          success |-> SceneSchemaParse(spec.scenes[k]).success,
                          issues |-> SceneSchemaParse(spec.scenes[k]).issues]
    /\ UNCHANGED <<spec, parseResult>>
    /\ UNCHANGED NotValidate

\* error.value = null
NoError == [kind |-> "null", chunk |-> [scene |-> 0, chunk |-> 0]]
\* no call has returned yet
NoReturn == [kind |-> "none", map |-> <<>>]
\* validateSync has not returned yet
PendingSync == [done |-> FALSE, valid |-> FALSE, errors |-> <<>>]

NarrationIdle ==
    /\ narration = <<>>
    /\ pc = "idle"
    /\ allChunks = <<>>
    /\ i = 0
    /\ segments = <<>>
    /\ currentTime = 0
    /\ audioSegments = <<>>
    /\ error = NoError
    /\ isLoading = FALSE
    /\ progress = 0
    /\ ret = NoReturn
    /\ ttsCalls = <<>>
    /\ durations = <<>>
    /\ runs = 0

SyncIdle ==
    /\ syncInput = <<>>
    /\ syncResult = PendingSync

ValidateIdle ==
    /\ spec = NoSpec
    /\ parseResult = PendingParse
    /\ sceneResult = PendingScene

\* animatedPuckPosition = ref([0, 0.1, 0])
RestPosition == <<(<<0, 1>>), (<<1, 10>>), (<<0, 1>>)>>

\* no scene mounted
NoScene == [start |-> 0, events |-> {}]

PlaybackIdle ==
    /\ propsScene = NoScene
    /\ animatedPuckPosition = RestPosition
    /\ lastTime = {}

\* useState('projectName', () => 'Untitled Project')
DefaultProjectName == "Untitled Project"

\* the spec the editor page starts from when the project holds none; a
\* scene keeps the number of its narration lines and the t of its events
DefaultEditorSpec ==
    [duration_target |-> 120,
     scenes |-> <<[type |-> "intro", start |-> 0, end |-> 15,
                   narration |-> 1, events |-> <<>>]>>,
     audioSegments |-> {}]

\* no subtitles asked for
SubtitleIdle ==
    /\ vttSpec = <<>>
    /\ vtt = <<>>
    /\ vttDone = FALSE

\* the preview page is not open
PreviewIdle ==
    /\ pageScenes = <<>>
    /\ pageDuration = 0
    /\ pageAudio = <<>>
    /\ mounted = FALSE
    /\ isPlaying = FALSE
    /\ playTime = 0
    /\ currentSceneIndex = 0
    /\ playbackAnimationFrame = {}
    /\ pendingFrames = {}
    /\ activeAudioSegments = {}
    /\ startedAudio = {}
    /\ canplayListeners = {}
    /\ loadedAudio = {}

\* useState initial values, nothing stored, no import under way
ProjectIdle ==
    /\ videoSpec = {}
    /\ projectAudioSegments = {}
    /\ projectName = DefaultProjectName
    /\ lastSaved = {}
    /\ storage = {}
    /\ importFile = {}
    /\ importRet = {}
    /\ lastOp = "none"

EditorIdle ==
    /\ editorSpec = DefaultEditorSpec
    /\ shared = FALSE
    /\ synthPending = {}
    /\ edits = 0

\* no $fetch has resolved
NoResponse == [got |-> FALSE, body |-> {}]

\* isLoading = ref(false), error = ref(null), generatedSpec = ref(null)
ExpandIdle ==
    /\ promptPc = "idle"
    /\ attempt = 0
    /\ requests = 0
    /\ generatedSpec = {}
    /\ promptError = {}
    /\ promptLoading = FALSE
    /\ promptRet = {}
    /\ response = NoResponse
    /\ expandCalls = 0

AppIdle == ProjectIdle /\ EditorIdle /\ ExpandIdle

InitValidate ==
    /\ PreviewIdle
    /\ SubtitleIdle
    /\ AppIdle
    /\ \E n \in 0..MaxScenes : spec \in SpecInputs(n)
    /\ parseResult = PendingParse
    /\ sceneResult = PendingScene
    /\ NarrationIdle
    /\ SyncIdle
    /\ PlaybackIdle

NextValidate == ParseSpec \/ ParseScene

SpecValidate == InitValidate /\ [][NextValidate]_vars

(***************************************************************************)
(* useNarrationSynthesis                                                   *)
(***************************************************************************)
PausePadding == 15

\* chunkId = `scene${sceneIndex}_chunk${chunkIndex}`: the two zero-based
\* indices, the template keeps them apart
ChunkId(sceneIndex, chunkIndex) == [scene |-> sceneIndex, chunk |-> chunkIndex]

\* mutant: chunk indices counted from one
ChunksOfScene_OneBased(nar, sceneIndex) ==
    [k \in 1..nar[sceneIndex + 1].chunks |->
        [sceneIndex |-> sceneIndex, chunkIndex |-> k,
         startTime |-> nar[sceneIndex + 1].start]]

\* scene.narration.forEach((chunk, chunkIndex) => allChunks.push(
\*   { sceneIndex, chunkIndex, text, startTime: scene.start }))
ChunksOfScene(nar, sceneIndex) ==
    [k \in 1..nar[sceneIndex + 1].chunks |->
        [sceneIndex |-> sceneIndex, chunkIndex |-> k - 1,
         startTime |-> nar[sceneIndex + 1].start]]

\* spec.scenes.forEach((scene, sceneIndex) => ...): scene order, then chunk
\* order
RECURSIVE CollectChunks(_, _)
CollectChunks(nar, sceneIndex) ==
    IF sceneIndex >= Len(nar) THEN <<>>
    ELSE ChunksOfScene(nar, sceneIndex) \o CollectChunks(nar, sceneIndex + 1)

\* segments[chunkId] = segment on an object: an existing key keeps its
\* place, a new key goes last
PutSegment(map, seg) ==
    IF \E k \in 1..Len(map) : map[k].id = seg.id
    THEN [k \in 1..Len(map) |-> IF map[k].id = seg.id THEN seg ELSE map[k]]
    ELSE Append(map, seg)

\* mutant: the request of a chunk issued twice
IssueRequest_Twice(calls, chunk) ==
    calls \o <<ChunkId(chunk.sceneIndex, chunk.chunkIndex),
               ChunkId(chunk.sceneIndex, chunk.chunkIndex)>>

\* await synthesizeChunk(chunk.text, chunkId, voice): one request to
\* /api/tts/synthesize
IssueRequest(calls, chunk) ==
    Append(calls, ChunkId(chunk.sceneIndex, chunk.chunkIndex))

\* mutant: a pause of 2.5 s
NextCursor_LongPause(segment) == segment.end + PausePadding + 10

\* mutant: the pause left out of the cursor
NextCursor_NoPause(segment) == segment.end

\* currentTime = segment.end + 1.5
NextCursor(segment) == segment.end + PausePadding

\* mutant: the first chunk of a scene placed at the scene's start
MakeSegment_AtSceneStart(chunk, cursor, duration) ==
    LET from == IF chunk.chunkIndex = 0 THEN chunk.startTime ELSE cursor
    IN [id |-> ChunkId(chunk.sceneIndex, chunk.chunkIndex),
        start |-> from, end |-> from + duration]

\* { path, start: currentTime, end: currentTime + audioData.duration },
\* stored under chunkId
MakeSegment(chunk, cursor, duration) ==
    [id |-> ChunkId(chunk.sceneIndex, chunk.chunkIndex),
     start |-> cursor, end |-> cursor + duration]

\* Math.round(((i + 1) / allChunks.length) * 100)
ProgressAfter(done, total) == (200 * done + total) \div (2 * total)

\* the narration of the specs tried that have n scenes: for each scene its
\* start (tenths of a second) and its number of chunks
NarrationInputs(n) == [1..n -> [start : SceneStarts, chunks : 0..MaxChunks]]

\* mutant: what was computed before the failure is published
PublishedOnFailure_Partial(published, partial) == partial

\* on a failure audioSegments.value is not assigned
PublishedOnFailure(published, partial) == published

\* synthesizeNarration(spec), up to its first await: the refs are reset,
\* the chunks collected and the request for the first chunk issued; with no
\* chunk at all the call runs to its return.
SynthesizeNarration ==
    /\ pc \in {"idle", "done"}
    /\ runs < MaxRuns
    /\ runs' = runs + 1
    /\ error' = NoError
    /\ LET chunks == CollectChunks(narration, 0)
       IN /\ allChunks' = chunks
          /\ segments' = <<>>
          /\ currentTime' = 0
          /\ i' = 0
          /\ durations' = <<>>
          /\ audioSegments' = <<>>
          /\ IF Len(chunks) = 0
             THEN /\ progress' = 0
                  /\ ret' = [kind |-> "map", map |-> <<>>]
                  /\ isLoading' = FALSE
                  /\ ttsCalls' = <<>>
                  /\ pc' = "done"
             ELSE /\ progress' = 0
                  /\ ret' = NoReturn
                  /\ isLoading' = TRUE
                  /\ ttsCalls' = IssueRequest(<<>>, chunks[1])
                  /\ pc' = "awaiting"
    /\ UNCHANGED narration
    /\ UNCHANGED NotNarration

\* the TTS request of chunk i answers { path, duration }: the segment is
\* stored, the cursor and progress advance, and either the next request is
\* issued or the map is published and returned
TTSResolve ==
    /\ pc = "awaiting"
    /\ \E d \in TTSDurations :
          LET chunk == allChunks[i + 1]
              next == allChunks[i + 2]
              segment == MakeSegment(chunk, currentTime, d)
              built == PutSegment(segments, segment)
          IN /\ segments' = built
             /\ currentTime' = NextCursor(segment)
             /\ durations' = Append(durations, d)
             /\ progress' = ProgressAfter(i + 1, Len(allChunks))
             /\ IF i + 1 < Len(allChunks)
                THEN /\ i' = i + 1
                     /\ ttsCalls' = IssueRequest(ttsCalls, next)
                     /\ UNCHANGED <<pc, audioSegments, ret, isLoading>>
                ELSE /\ audioSegments' = built
                     /\ ret' = [kind |-> "map", map |-> built]
                     /\ isLoading' = FALSE
                     /\ pc' = "done"
                     /\ UNCHANGED <<i, ttsCalls>>
    /\ UNCHANGED <<narration, allChunks, error, runs>>
    /\ UNCHANGED NotNarration

\* the TTS request of chunk i fails: $fetch rejects, or resolves with no
\* data (`if (!audioData) throw`).  The inner catch rethrows with the chunk
\* id, the outer catch sets error and returns null, finally clears
\* isLoading; no later request is issued.
TTSFail ==
    /\ pc = "awaiting"
    /\ \E kind \in {"rejected", "empty"} :
          error' = [kind |-> kind,
                    chunk |-> ChunkId(allChunks[i + 1].sceneIndex,
                                      allChunks[i + 1].chunkIndex)]
    /\ ret' = [kind |-> "null", map |-> <<>>]
    /\ audioSegments' = PublishedOnFailure(audioSegments, segments)
    /\ isLoading' = FALSE
    /\ pc' = "done"
    /\ UNCHANGED <<narration, allChunks, i, segments, currentTime, progress,
                   ttsCalls, durations, runs>>
    /\ UNCHANGED NotNarration

\* reset(): callable at any time, also while a request is outstanding
Reset ==
    /\ runs > 0
    /\ isLoading' = FALSE
    /\ error' = NoError
    /\ audioSegments' = <<>>
    /\ progress' = 0
    /\ pc' = IF pc = "done" THEN "idle" ELSE pc
    /\ ret' = IF pc = "done" THEN NoReturn ELSE ret
    /\ UNCHANGED <<narration, allChunks, i, segments, currentTime, ttsCalls,
                   durations, runs>>
    /\ UNCHANGED NotNarration

InitNarration ==
    /\ PreviewIdle
    /\ SubtitleIdle
    /\ AppIdle
    /\ ValidateIdle
    /\ PlaybackIdle
    /\ \E n \in 1..MaxScenes : narration \in NarrationInputs(n)
    /\ pc = "idle"
    /\ allChunks = <<>>
    /\ i = 0
    /\ segments = <<>>
    /\ currentTime = 0
    /\ audioSegments = <<>>
    /\ error = NoError
    /\ isLoading = FALSE
    /\ progress = 0
    /\ ret = NoReturn
    /\ ttsCalls = <<>>
    /\ durations = <<>>
    /\ runs = 0
    /\ SyncIdle

NextNarration ==
    \/ SynthesizeNarration
    \/ TTSResolve
    \/ TTSFail
    \/ Reset

SpecNarration == InitNarration /\ [][NextNarration]_vars

(***************************************************************************)
(* validateSync                                                            *)
(***************************************************************************)
LargeGap == 20

\* mutant: a gap of exactly 2.0 s reported
SyncErrorOfPair_Inclusive(seg1, seg2) ==
    LET gap == seg2.start - seg1.end
    IN IF gap < 0
       THEN <<[kind |-> "overlap", id1 |-> seg1.id, id2 |-> seg2.id,
               amount |-> 0 - gap]>>
       ELSE IF gap >= LargeGap
            THEN <<[kind |-> "large_gap", id1 |-> seg1.id, id2 |-> seg2.id,
                    amount |-> gap]>>
            ELSE <<>>

\* body of the loop: gap = seg2.start - seg1.end; an overlap error carries
\* Math.abs(gap), a large-gap error the gap
SyncErrorOfPair(seg1, seg2) ==
    LET gap == seg2.start - seg1.end
    IN IF gap < 0
       THEN <<[kind |-> "overlap", id1 |-> seg1.id, id2 |-> seg2.id,
               amount |-> 0 - gap]>>
       ELSE IF gap > LargeGap
            THEN <<[kind |-> "large_gap", id1 |-> seg1.id, id2 |-> seg2.id,
                    amount |-> gap]>>
            ELSE <<>>

\* for (let i = 0; i < segmentArray.length - 1; i++) over
\* Object.entries(segments), which lists string keys in insertion order;
\* k is i + 1
RECURSIVE SyncErrors(_, _)
SyncErrors(segmentArray, k) ==
    IF k >= Len(segmentArray) THEN <<>>
    ELSE SyncErrorOfPair(segmentArray[k], segmentArray[k + 1])
            \o SyncErrors(segmentArray, k + 1)

\* validateSync(segments)
ValidateSyncOf(segs) ==
    LET errors == SyncErrors(segs, 1)
    IN [valid |-> Len(errors) = 0, errors |-> errors]

\* the maps tried that have n entries, keyed by their insertion rank
SyncInputs(n) ==
    {[k \in 1..n |-> [id |-> k, start |-> f[k].start, end |-> f[k].end]] :
        f \in [1..n -> [start : SegTimes, end : SegTimes]]}

\* validateSync(syncInput)
ValidateSync ==
    /\ ~syncResult.done
    /\ syncResult' = [done |-> TRUE,
                      valid |-> ValidateSyncOf(syncInput).valid,
                      errors |-> ValidateSyncOf(syncInput).errors]
    /\ UNCHANGED syncInput
    /\ UNCHANGED NotSync

InitSync ==
    /\ PreviewIdle
    /\ SubtitleIdle
    /\ AppIdle
    /\ ValidateIdle
    /\ PlaybackIdle
    /\ NarrationIdle
    /\ \E n \in 0..MaxSegs : syncInput \in SyncInputs(n)
    /\ syncResult = PendingSync

NextSync == ValidateSync

SpecSync == InitSync /\ [][NextSync]_vars

(***************************************************************************)
(* Scene3DViewer: updateSceneAtTime / applyEventAnimation                  *)
(*                                                                         *)
(* Times are tenths of a second.  Positions and progress are exact         *)
(* fractions <<num, den>> in lowest terms with den > 0.  An optional       *)
(* number is {} when absent and {v} when present.                          *)
(***************************************************************************)
DefaultEventDuration == 10
DefaultStartX == 0
DefaultEndX == 10

RECURSIVE Gcd(_, _)
Gcd(a, b) == IF b = 0 THEN a ELSE Gcd(b, a % b)

Abs(n) == IF n < 0 THEN 0 - n ELSE n

\* the fraction n / d (d > 0) in lowest terms
Frac(n, d) ==
    LET g == Gcd(Abs(n), d)
    IN <<n \div g, d \div g>>

\* `value || fallback` on an optional number: undefined and 0 are falsy
OrDefault(opt, fallback) ==
    IF opt = {} \/ opt = {0} THEN fallback ELSE CHOOSE v \in opt : TRUE

\* const eventDuration = event.duration || 1.0
EventDuration(event) == OrDefault(event.duration, DefaultEventDuration)

\* mutant: the window taken as open at its end
IsActive_HalfOpen(event, sceneRelativeTime) ==
    /\ sceneRelativeTime >= event.t
    /\ sceneRelativeTime < event.t + EventDuration(event)

\* sceneRelativeTime >= eventTime && sceneRelativeTime <= eventTime + eventDuration
IsActive(event, sceneRelativeTime) ==
    /\ sceneRelativeTime >= event.t
    /\ sceneRelativeTime <= event.t + EventDuration(event)

\* Math.max(0, Math.min(1, (sceneRelativeTime - eventTime) / eventDuration))
Progress(event, sceneRelativeTime) ==
    LET n == sceneRelativeTime - event.t
        d == EventDuration(event)
    IN IF n < 0 THEN <<0, 1>> ELSE IF n > d THEN <<1, 1>> ELSE Frac(n, d)

\* applyEventAnimation(event, progress): the position it leaves, given the
\* position it finds.  Only animate_puck_3d writes the position.
ApplyEventAnimation(position, event, prog) ==
    IF event.action = "animate_puck_3d"
    THEN LET startX == OrDefault(event.startX, DefaultStartX)
             endX == OrDefault(event.endX, DefaultEndX)
         IN IF event.path = "straight_line"
            THEN <<Frac(startX * prog[2] + (endX - startX) * prog[1],
                        prog[2]),
                   (<<1, 10>>), (<<0, 1>>)>>
            ELSE <<Frac(prog[1] * 10, prog[2]), (<<1, 10>>), (<<0, 1>>)>>
    ELSE position

\* activeEvents.forEach(event => applyEventAnimation(event, progress))
RECURSIVE ApplyActiveEvents(_, _, _)
ApplyActiveEvents(position, activeEvents, sceneRelativeTime) ==
    IF activeEvents = <<>> THEN position
    ELSE ApplyActiveEvents(
             ApplyEventAnimation(position, Head(activeEvents),
                                 Progress(Head(activeEvents), sceneRelativeTime)),
             Tail(activeEvents), sceneRelativeTime)


IsPuckEvent(e) == e.action = "animate_puck_3d"

\* mutant: with no active event the position is always reset
NoActiveEvent_AlwaysRest(position, events, sceneRelativeTime) == RestPosition

\* the branch `activeEvents.length === 0`: the last animate_puck_3d event of
\* the array is applied at progress 1.0 when the time is past its end,
\* otherwise the position is reset
NoActiveEvent(position, events, sceneRelativeTime) ==
    LET puckEvents == SelectSeq(events, IsPuckEvent)
    IN IF /\ puckEvents # <<>>
          /\ sceneRelativeTime > puckEvents[Len(puckEvents)].t
                                   + EventDuration(puckEvents[Len(puckEvents)])
       THEN ApplyEventAnimation(position, puckEvents[Len(puckEvents)], <<1, 1>>)
       ELSE RestPosition

\* mutant: the clamp compares the absolute time with 0
BeforeSceneStart_Absolute(sc, time) == time <= 0

\* sceneRelativeTime = time - (props.scene.start || 0); sceneRelativeTime <= 0
BeforeSceneStart(sc, time) == time - OrDefault({sc.start}, 0) <= 0

\* updateSceneAtTime(time): the value of animatedPuckPosition after the call
UpdateSceneAtTimeOf(sc, position, time) ==
    IF sc.events = {} THEN RestPosition
    ELSE LET events == CHOOSE es \in sc.events : TRUE
             sceneRelativeTime == time - OrDefault({sc.start}, 0)
             IsActiveNow(e) == IsActive(e, sceneRelativeTime)
             activeEvents == SelectSeq(events, IsActiveNow)
         IN IF BeforeSceneStart(sc, time) THEN RestPosition
            ELSE IF Len(activeEvents) = 0
                 THEN NoActiveEvent(position, events, sceneRelativeTime)
                 ELSE ApplyActiveEvents(position, activeEvents, sceneRelativeTime)

\* the events tried: puck animations with their parameters, and text reveals
PuckParams ==
    {[path |-> "straight_line", startX |-> {}, endX |-> {}],
     [path |-> "straight_line", startX |-> {4}, endX |-> {0}],
     [path |-> "arc", startX |-> {}, endX |-> {}]}

EventInputs ==
    {[t |-> t, duration |-> d, action |-> "animate_puck_3d",
      path |-> q.path, startX |-> q.startX, endX |-> q.endX] :
        t \in EventTimes, d \in EventDurations, q \in PuckParams}
    \cup {[t |-> t, duration |-> d, action |-> "reveal_text",
           path |-> "none", startX |-> {}, endX |-> {}] :
            t \in EventTimes, d \in EventDurations}

\* the scenes tried that have n events
SceneViewInputs(n) == [start : PlaybackStarts, events : {{es} : es \in [1..n -> EventInputs]}]

\* the scenes tried that have no events array
SceneViewInputsBare == [start : PlaybackStarts, events : {{}}]

\* watch(currentTime, (time) => updateSceneAtTime(time)): playback and
\* scrubbing call it with any time, in any order
UpdateSceneAtTime ==
    /\ \E off \in QueryOffsets :
          /\ animatedPuckPosition' =
                UpdateSceneAtTimeOf(propsScene, animatedPuckPosition,
                                    propsScene.start + off)
          /\ lastTime' = {propsScene.start + off}
    /\ UNCHANGED propsScene
    /\ UNCHANGED NotPlayback

InitPlayback ==
    /\ PreviewIdle
    /\ SubtitleIdle
    /\ AppIdle
    /\ ValidateIdle
    /\ NarrationIdle
    /\ SyncIdle
    /\ \/ \E n \in 0..MaxEvents : propsScene \in SceneViewInputs(n)
       \/ propsScene \in SceneViewInputsBare
    /\ animatedPuckPosition = RestPosition
    /\ lastTime = {}

NextPlayback == UpdateSceneAtTime

SpecPlayback == InitPlayback /\ [][NextPlayback]_vars

(***************************************************************************)
(* useProjectState: the shared project state and its localStorage record   *)
(*                                                                         *)
(* A JSON text is kept as the tree of its tokens.  A token is a record     *)
(* [tag, num, str, val]; an object or array token carries its tree in val. *)
(* A key that may be missing from an object is {} when missing and {token} *)
(* when present.                                                           *)
(***************************************************************************)
ImportedProjectName == "Imported Project"

JNull == [tag |-> "null", num |-> 0, str |-> "", val |-> {}]
JNum(n) == [tag |-> "number", num |-> n, str |-> "", val |-> {}]
JStr(t) == [tag |-> "string", num |-> 0, str |-> t, val |-> {}]
JObj(tree) == [tag |-> "object", num |-> 0, str |-> "", val |-> {tree}]

TreeOf(j) == CHOOSE t \in j.val : TRUE
TokenOf(key) == CHOOSE j \in key : TRUE

\* what JSON.parse gives for a number or string token
NumOf(j) == IF j.tag = "number" THEN j.num ELSE j.str
StrOf(j) == IF j.tag = "string" THEN j.str ELSE j.num

\* JavaScript truthiness of data.key: undefined, null, 0 and '' are falsy,
\* an object is truthy
Truthy(key) ==
    /\ key # {}
    /\ LET j == TokenOf(key)
       IN ~ \/ j.tag = "null"
            \/ j.tag = "number" /\ j.num = 0
            \/ j.tag = "string" /\ j.str = ""

\* JSON.stringify of an audio segment map: an object keyed by chunk id
MapToJSON(map) ==
    JObj([k \in 1..Len(map) |->
            [id |-> map[k].id, start |-> JNum(map[k].start),
             end |-> JNum(map[k].end)]])

MapFromJSON(j) ==
    LET t == TreeOf(j)
    IN [k \in 1..Len(t) |->
           [id |-> t[k].id, start |-> NumOf(t[k].start), end |-> NumOf(t[k].end)]]

SceneToJSON(sc) ==
    [type |-> JStr(sc.type), start |-> JNum(sc.start), end |-> JNum(sc.end),
     narration |-> [k \in 1..sc.narration |-> JStr("text")],
     events |-> [k \in 1..Len(sc.events) |-> JNum(sc.events[k])]]

SceneFromJSON(t) ==
    [type |-> StrOf(t.type), start |-> NumOf(t.start), end |-> NumOf(t.end),
     narration |-> Len(t.narration),
     events |-> [k \in 1..Len(t.events) |-> NumOf(t.events[k])]]

\* JSON.stringify of a spec: a key whose value is undefined is left out
SpecToJSON(sp) ==
    JObj([duration_target |-> JNum(sp.duration_target),
          scenes |-> [k \in 1..Len(sp.scenes) |-> SceneToJSON(sp.scenes[k])],
          audioSegments |-> {MapToJSON(m) : m \in sp.audioSegments}])

SpecFromJSON(j) ==
    LET t == TreeOf(j)
    IN [duration_target |-> NumOf(t.duration_target),
        scenes |-> [k \in 1..Len(t.scenes) |-> SceneFromJSON(t.scenes[k])],
        audioSegments |-> {MapFromJSON(m) : m \in t.audioSegments}]

\* the four useState values as one record
Memory ==
    [videoSpec |-> videoSpec, audioSegments |-> projectAudioSegments,
     projectName |-> projectName, lastSaved |-> lastSaved]

SetMemory(m) ==
    /\ videoSpec' = m.videoSpec
    /\ projectAudioSegments' = m.audioSegments
    /\ projectName' = m.projectName
    /\ lastSaved' = m.lastSaved

InitialMemory ==
    [videoSpec |-> {}, audioSegments |-> {},
     projectName |-> DefaultProjectName, lastSaved |-> {}]

\* JSON.stringify({ videoSpec, audioSegments, projectName, lastSaved })
JSONStringify(m) ==
    [videoSpec |-> {IF m.videoSpec = {} THEN JNull
                    ELSE SpecToJSON(CHOOSE v \in m.videoSpec : TRUE)},
     audioSegments |-> {IF m.audioSegments = {} THEN JNull
                        ELSE MapToJSON(CHOOSE a \in m.audioSegments : TRUE)},
     projectName |-> {JStr(m.projectName)},
     lastSaved |-> {JStr("iso")}]

\* mutant: the record is not written
SaveProjectOf_NoWrite(m, st) ==
    [memory |-> [m EXCEPT !.lastSaved = {"date"}], storage |-> st]

\* saveProject: the record is written, lastSaved set
SaveProjectOf(m, st) ==
    [memory |-> [m EXCEPT !.lastSaved = {"date"}],
     storage |-> {JSONStringify(m)}]

\* data.videoSpec || null, data.audioSegments || null
SpecOrNull(key) == IF Truthy(key) THEN {SpecFromJSON(TokenOf(key))} ELSE {}
MapOrNull(key) == IF Truthy(key) THEN {MapFromJSON(TokenOf(key))} ELSE {}
NameOr(key, fallback) == IF Truthy(key) THEN StrOf(TokenOf(key)) ELSE fallback

\* loadProject: nothing happens without a record
LoadProjectOf(m, st) ==
    IF st = {} THEN m
    ELSE LET data == CHOOSE d \in st : TRUE
         IN [videoSpec |-> SpecOrNull(data.videoSpec),
             audioSegments |-> MapOrNull(data.audioSegments),
             projectName |-> NameOr(data.projectName, DefaultProjectName),
             lastSaved |-> IF Truthy(data.lastSaved) THEN {"date"} ELSE {}]

\* if (data.videoSpec)
ImportAccepts(data) == Truthy(data.videoSpec)

\* the state importProject builds from the file before it saves
ImportedMemory(m, data) ==
    [m EXCEPT !.videoSpec = {SpecFromJSON(TokenOf(data.videoSpec))},
              !.audioSegments = MapOrNull(data.audioSegments),
              !.projectName = NameOr(data.projectName, ImportedProjectName)]

\* mutant: a rejected file resets the project
ImportRejected_Cleared(m) == InitialMemory

\* return false: nothing was assigned
ImportRejected(m) == m

\* ---- inputs ----
OneSegmentMap == <<[id |-> ChunkId(0, 0), start |-> 0, end |-> 15]>>

AudioMaps == {<<>>, OneSegmentMap}

TwoSceneSpec ==
    [duration_target |-> 80,
     scenes |-> <<[type |-> "intro", start |-> 0, end |-> 15,
                   narration |-> 1, events |-> <<0>>],
                  [type |-> "skill1", start |-> 15, end |-> 45,
                   narration |-> 2, events |-> <<>>]>>,
     audioSegments |-> {OneSegmentMap}]

\* valid specs handed to updateVideoSpec or found in a file
ProjectSpecs == {DefaultEditorSpec, TwoSceneSpec}

ProjectNames == {"", "My Project"}

NoData == [videoSpec |-> {}, audioSegments |-> {}, projectName |-> {},
           lastSaved |-> {}]

\* files handed to importProject: text that is not JSON, the JSON text
\* null, and JSON objects with and without a videoSpec
ImportFiles ==
    {[kind |-> "garbage", data |-> NoData], [kind |-> "null", data |-> NoData]}
    \cup {[kind |-> "object",
           data |-> [videoSpec |-> vs, audioSegments |-> au,
                     projectName |-> pn, lastSaved |-> {}]] :
            vs \in {{}, {JNull}, {SpecToJSON(TwoSceneSpec)}},
            au \in {{}, {MapToJSON(OneSegmentMap)}},
            pn \in {{}, {JStr("My Project")}}}

\* ---- actions ----
\* updateVideoSpec(spec) with a spec object of the caller
UpdateVideoSpec ==
    /\ \E v \in ProjectSpecs :
          LET saved == SaveProjectOf([Memory EXCEPT !.videoSpec = {v}], storage)
          IN /\ SetMemory(saved.memory)
             /\ storage' = saved.storage
    /\ shared' = FALSE
    /\ lastOp' = "updateVideoSpec"
    /\ UNCHANGED <<importFile, importRet, editorSpec, synthPending, edits>>
    /\ UNCHANGED NotProject

\* updateAudioSegments(segments)
UpdateAudioSegments ==
    /\ \E a \in AudioMaps :
          LET saved == SaveProjectOf([Memory EXCEPT !.audioSegments = {a}], storage)
          IN /\ SetMemory(saved.memory)
             /\ storage' = saved.storage
    /\ lastOp' = "updateAudioSegments"
    /\ UNCHANGED <<importFile, importRet>>
    /\ UNCHANGED eVars
    /\ UNCHANGED NotProject

\* mutant: the record survives
RemoveItem_Keep(st) == st

\* localStorage.removeItem('synapvid-project')
RemoveItem(st) == {}

\* clearProject()
ClearProject ==
    /\ SetMemory(InitialMemory)
    /\ storage' = RemoveItem(storage)
    /\ shared' = FALSE
    /\ lastOp' = "clearProject"
    /\ UNCHANGED <<importFile, importRet, editorSpec, synthPending, edits>>
    /\ UNCHANGED NotProject

\* saveProject()
SaveProject ==
    /\ LET saved == SaveProjectOf(Memory, storage)
       IN /\ SetMemory(saved.memory)
          /\ storage' = saved.storage
    /\ lastOp' = "saveProject"
    /\ UNCHANGED <<importFile, importRet>>
    /\ UNCHANGED eVars
    /\ UNCHANGED NotProject

\* loadProject()
LoadProject ==
    /\ SetMemory(LoadProjectOf(Memory, storage))
    /\ shared' = IF storage = {} THEN shared ELSE FALSE
    /\ lastOp' = "loadProject"
    /\ UNCHANGED <<storage, importFile, importRet, editorSpec, synthPending, edits>>
    /\ UNCHANGED NotProject

\* projectName is handed out writable: projectName.value = name
SetProjectName ==
    /\ \E name \in ProjectNames : projectName' = name
    /\ lastOp' = "projectName"
    /\ UNCHANGED <<videoSpec, projectAudioSegments, lastSaved, storage,
                   importFile, importRet>>
    /\ UNCHANGED eVars
    /\ UNCHANGED NotProject

\* importProject(file), up to await file.text()
ImportProject ==
    /\ importFile = {}
    /\ \E f \in ImportFiles : importFile' = {f}
    /\ importRet' = {}
    /\ UNCHANGED <<videoSpec, projectAudioSegments, projectName, lastSaved,
                   storage, lastOp>>
    /\ UNCHANGED eVars
    /\ UNCHANGED NotProject

\* importProject(file) from the text on: JSON.parse, then either the state
\* is replaced and saved, or false is returned
ImportProjectResume ==
    /\ importFile # {}
    /\ LET f == CHOOSE x \in importFile : TRUE
       IN IF f.kind = "object" /\ ImportAccepts(f.data)
          THEN LET saved == SaveProjectOf(ImportedMemory(Memory, f.data), storage)
               IN /\ SetMemory(saved.memory)
                  /\ storage' = saved.storage
                  /\ shared' = FALSE
                  /\ importRet' = {TRUE}
          ELSE /\ SetMemory(ImportRejected(Memory))
               /\ importRet' = {FALSE}
               /\ UNCHANGED <<storage, shared>>
    /\ importFile' = {}
    /\ lastOp' = "importProject"
    /\ UNCHANGED <<editorSpec, synthPending, edits>>
    /\ UNCHANGED NotProject

\* the records a previous session can have left
StoredRecords ==
    {{}} \cup {{JSONStringify([videoSpec |-> {v}, audioSegments |-> {},
                               projectName |-> "My Project",
                               lastSaved |-> {"date"}])} : v \in ProjectSpecs}

\* useProjectState() on the client: the defaults, then the automatic
\* loadProject()
InitProject ==
    /\ PreviewIdle
    /\ SubtitleIdle
    /\ ValidateIdle
    /\ NarrationIdle
    /\ SyncIdle
    /\ PlaybackIdle
    /\ EditorIdle
    /\ ExpandIdle
    /\ storage \in StoredRecords
    /\ videoSpec = LoadProjectOf(InitialMemory, storage).videoSpec
    /\ projectAudioSegments = LoadProjectOf(InitialMemory, storage).audioSegments
    /\ projectName = LoadProjectOf(InitialMemory, storage).projectName
    /\ lastSaved = LoadProjectOf(InitialMemory, storage).lastSaved
    /\ importFile = {}
    /\ importRet = {}
    /\ lastOp = "none"

NextProject ==
    \/ UpdateVideoSpec
    \/ UpdateAudioSegments
    \/ ClearProject
    \/ SaveProject
    \/ LoadProject
    \/ SetProjectName
    \/ ImportProject
    \/ ImportProjectResume

SpecProject == InitProject /\ [][NextProject]_vars

(***************************************************************************)
(* Editor page: the reactive spec, its editing operations, saveChanges and *)
(* synthesizeAudio                                                         *)
(***************************************************************************)
NewSceneLength == 30

\* VisualEventSchema: t is z.number().min(0)
EventsOk(sc) == \A k \in 1..Len(sc.events) : sc.events[k] >= 0

\* validateSpec(): VideoSpecSchema.parse(spec) does not throw
ValidateSpecOf(sp) ==
    /\ VideoSpecSchemaParse(sp).success
    /\ \A k \in 1..Len(sp.scenes) : EventsOk(sp.scenes[k])

\* a write to the reactive spec, one more editing operation done: the
\* project state sees it at once when videoSpec.value is that very object
EditTo(newSpec) ==
    /\ editorSpec' = newSpec
    /\ videoSpec' = IF shared THEN {newSpec} ELSE videoSpec
    /\ edits' = edits + 1
    /\ UNCHANGED <<projectAudioSegments, projectName, lastSaved, storage,
                   importFile, importRet, lastOp, shared, synthPending>>

RemoveAt(seq, k) == [j \in 1..(Len(seq) - 1) |-> IF j < k THEN seq[j] ELSE seq[j + 1]]

Swap(seq, a, b) ==
    [j \in 1..Len(seq) |-> IF j = a THEN seq[b] ELSE IF j = b THEN seq[a] ELSE seq[j]]

\* addScene(): the new scene starts where the array's last scene ends
AddScene ==
    /\ edits < MaxEdits
    /\ LET scenes == editorSpec.scenes
           newStart == IF Len(scenes) > 0 THEN scenes[Len(scenes)].end ELSE 0
       IN EditTo([editorSpec EXCEPT !.scenes =
              Append(scenes, [type |-> "skill1", start |-> newStart,
                              end |-> newStart + NewSceneLength,
                              narration |-> 1, events |-> <<>>])])
    /\ UNCHANGED NotProject

\* deleteScene(index)
DeleteScene ==
    /\ edits < MaxEdits
    /\ \E k \in 1..Len(editorSpec.scenes) :
          EditTo([editorSpec EXCEPT !.scenes = RemoveAt(editorSpec.scenes, k)])
    /\ UNCHANGED NotProject

\* moveScene(index, direction) with direction -1 or 1
MoveScene ==
    /\ edits < MaxEdits
    /\ \E k \in 1..Len(editorSpec.scenes), direction \in {0 - 1, 1} :
          LET newIndex == k + direction
          IN /\ newIndex >= 1
             /\ newIndex <= Len(editorSpec.scenes)
             /\ EditTo([editorSpec EXCEPT !.scenes =
                    Swap(editorSpec.scenes, k, newIndex)])
    /\ UNCHANGED NotProject

\* addEvent(sceneIndex): { t: scene.start, action: 'reveal_text' }
AddEvent ==
    /\ edits < MaxEdits
    /\ \E k \in 1..Len(editorSpec.scenes) :
          EditTo([editorSpec EXCEPT !.scenes[k].events =
              Append(@, editorSpec.scenes[k].start)])
    /\ UNCHANGED NotProject

\* the numbers of lines a narration edit leaves: text of blanks only
\* gives none
NarrationEdits == {0, 2}

\* updateNarration(index) with a non-empty text
UpdateNarration ==
    /\ edits < MaxEdits
    /\ \E k \in 1..Len(editorSpec.scenes), lines \in NarrationEdits :
          EditTo([editorSpec EXCEPT !.scenes[k].narration = lines])
    /\ UNCHANGED NotProject

\* the objects typed into the JSON editor: keys not typed are {}
EditorJSONInputs ==
    {[duration_target |-> {80}, scenes |-> {}],
     [duration_target |-> {},
      scenes |-> {<<[type |-> "intro", start |-> 0, end |-> 30,
                     narration |-> 1, events |-> <<>>],
                    [type |-> "skill1", start |-> 15, end |-> 45,
                     narration |-> 1, events |-> <<>>]>>}]}

\* applyJSON(): Object.assign(spec, parsed)
ApplyJSON ==
    /\ edits < MaxEdits
    /\ \E parsed \in EditorJSONInputs :
          EditTo([duration_target |->
                      IF parsed.duration_target = {}
                      THEN editorSpec.duration_target
                      ELSE CHOOSE d \in parsed.duration_target : TRUE,
                  scenes |->
                      IF parsed.scenes = {} THEN editorSpec.scenes
                      ELSE CHOOSE sc \in parsed.scenes : TRUE,
                  audioSegments |-> editorSpec.audioSegments])
    /\ UNCHANGED NotProject

\* saveChanges(): updateVideoSpec(spec) when validateSpec() holds
SaveChanges ==
    /\ ValidateSpecOf(editorSpec)
    /\ LET saved == SaveProjectOf([Memory EXCEPT !.videoSpec = {editorSpec}], storage)
       IN /\ SetMemory(saved.memory)
          /\ storage' = saved.storage
    /\ shared' = TRUE
    /\ lastOp' = "updateVideoSpec"
    /\ UNCHANGED <<importFile, importRet, editorSpec, synthPending, edits>>
    /\ UNCHANGED NotProject

RECURSIVE NarrationLines(_)
NarrationLines(scenes) ==
    IF scenes = <<>> THEN 0
    ELSE Head(scenes).narration + NarrationLines(Tail(scenes))

\* synthesizeAudio(), up to await synthesizeNarration(spec); what is kept
\* is whether the spec had any narration chunk
SynthesizeAudio ==
    /\ synthPending = {}
    /\ synthPending' = {NarrationLines(editorSpec.scenes) > 0}
    /\ UNCHANGED <<editorSpec, shared, edits>>
    /\ UNCHANGED jVars
    /\ UNCHANGED NotProject

\* what synthesizeNarration can return: {} for a map, {map}; with no chunk
\* the empty map, else null or a map
SynthesisResults(hasChunks) ==
    IF hasChunks THEN {{}, {OneSegmentMap}} ELSE {{<<>>}}

\* synthesizeAudio() from the result on: a map, the empty one included, is
\* stored, merged into the spec, and the spec handed to updateVideoSpec
SynthesizeAudioResume ==
    /\ synthPending # {}
    /\ synthPending' = {}
    /\ UNCHANGED edits
    /\ \E result \in SynthesisResults(CHOOSE b \in synthPending : TRUE) :
          IF result = {}
          THEN /\ UNCHANGED <<editorSpec, shared>>
               /\ UNCHANGED jVars
          ELSE LET updated == [editorSpec EXCEPT !.audioSegments = result]
                   saved == SaveProjectOf(
                                [Memory EXCEPT !.audioSegments = result,
                                               !.videoSpec = {updated}],
                                storage)
               IN /\ editorSpec' = updated
                  /\ SetMemory(saved.memory)
                  /\ storage' = saved.storage
                  /\ shared' = TRUE
                  /\ lastOp' = "updateVideoSpec"
                  /\ UNCHANGED <<importFile, importRet>>
    /\ UNCHANGED NotProject

\* the page is set up again: JSON.parse(JSON.stringify(videoSpec.value)),
\* or the default spec
MountEditor ==
    /\ synthPending = {}
    /\ editorSpec' = IF videoSpec = {} THEN DefaultEditorSpec
                     ELSE SpecFromJSON(SpecToJSON(CHOOSE v \in videoSpec : TRUE))
    /\ shared' = FALSE
    /\ UNCHANGED <<synthPending, edits>>
    /\ UNCHANGED jVars
    /\ UNCHANGED NotProject

InitEditor ==
    /\ PreviewIdle
    /\ SubtitleIdle
    /\ ValidateIdle
    /\ NarrationIdle
    /\ SyncIdle
    /\ PlaybackIdle
    /\ ExpandIdle
    /\ ProjectIdle
    /\ EditorIdle

NextEditor ==
    \/ AddScene
    \/ DeleteScene
    \/ MoveScene
    \/ AddEvent
    \/ UpdateNarration
    \/ ApplyJSON
    \/ SaveChanges
    \/ SynthesizeAudio
    \/ SynthesizeAudioResume
    \/ MountEditor

SpecEditor == InitEditor /\ [][NextEditor]_vars

(***************************************************************************)
(* The scene operations of the editor on their own, from any valid spec    *)
(***************************************************************************)
SceneLengths == {15, 30}

\* scenes laid end to end from 0, the k-th of length lens[k]
RECURSIVE EndOf(_, _)
EndOf(lens, k) == IF k = 0 THEN 0 ELSE EndOf(lens, k - 1) + lens[k]

ContiguousScenes(lens) ==
    [k \in 1..Len(lens) |->
        [type |-> IF k = 1 THEN "intro" ELSE "skill1",
         start |-> EndOf(lens, k - 1), end |-> EndOf(lens, k),
         narration |-> 1, events |-> <<>>]]

\* the specs the editor is opened on: n scenes end to end, kept when
\* validateSpec() accepts them
SceneOpsInputs(n) ==
    {sp \in {[duration_target |-> 120, scenes |-> ContiguousScenes(lens),
              audioSegments |-> {}] : lens \in [1..n -> SceneLengths]} :
        ValidateSpecOf(sp)}

InitSceneOps ==
    /\ PreviewIdle
    /\ SubtitleIdle
    /\ ValidateIdle
    /\ NarrationIdle
    /\ SyncIdle
    /\ PlaybackIdle
    /\ ExpandIdle
    /\ ProjectIdle
    /\ \E n \in 1..(MaxScenes + 1) : editorSpec \in SceneOpsInputs(n)
    /\ shared = FALSE
    /\ synthPending = {}
    /\ edits = 0

NextSceneOps ==
    \/ AddScene
    \/ DeleteScene
    \/ MoveScene

SpecSceneOps == InitSceneOps /\ [][NextSceneOps]_vars

(***************************************************************************)
(* usePromptExpansion: expandPrompt / callOpenAIWithRetry                  *)
(***************************************************************************)
\* maxRetries = 3
MaxRetries == 3

\* mutant: one more attempt before giving up
LastAttempt_Late(n) == n = MaxRetries + 1

\* if (attempt === maxRetries)
LastAttempt(n) == n = MaxRetries

\* err.message || 'Failed to expand prompt'
MessageOr(message) == IF message = "" THEN "Failed to expand prompt" ELSE message

\* mutant: any response that is not falsy is trusted
Trusted_Unvalidated(body) == body # {}

\* the response is not falsy and VideoSpecSchema.parse(spec) does not throw
Trusted(body) == body # {} /\ \A sp \in body : VideoSpecSchemaParse(sp).success

\* what VideoSpecSchema.parse returns: the keys of the schema
ParsedSpec(sp) == [duration_target |-> sp.duration_target, scenes |-> sp.scenes]

\* the message of the error thrown for a response that is not trusted
RejectionMessage(body) ==
    IF body = {} THEN "Failed to generate video specification" ELSE "ZodError"

\* ---- inputs ----
PayloadScenes == [type : InputTypes, start : {0, 85}, end : {85, 86}]

\* the bodies /api/openai/expand answers with that have n scenes
Payloads(n) == [duration_target : DurationTargets, scenes : [1..n -> PayloadScenes]]

\* ---- actions ----
\* expandPrompt(input), up to the await of the first $fetch
ExpandPrompt ==
    /\ promptPc \in {"idle", "done"}
    /\ expandCalls < MaxExpandCalls
    /\ expandCalls' = expandCalls + 1
    /\ promptLoading' = TRUE
    /\ promptError' = {}
    /\ attempt' = 1
    /\ requests' = 1
    /\ response' = NoResponse
    /\ promptRet' = {}
    /\ promptPc' = "fetching"
    /\ UNCHANGED generatedSpec
    /\ UNCHANGED NotExpand

\* the $fetch resolves: the response is returned to expandPrompt, which
\* validates it, publishes it or sets error, and returns
FetchResolve ==
    /\ promptPc = "fetching"
    /\ \E body \in {{}} \cup {{sp} : sp \in UNION {Payloads(n) : n \in 0..MaxScenes}} :
          /\ response' = [got |-> TRUE, body |-> body]
          /\ IF Trusted(body)
             THEN /\ generatedSpec' = {ParsedSpec(sp) : sp \in body}
                  /\ promptRet' = {{ParsedSpec(sp) : sp \in body}}
                  /\ UNCHANGED promptError
             ELSE /\ promptError' = {MessageOr(RejectionMessage(body))}
                  /\ promptRet' = {{}}
                  /\ UNCHANGED generatedSpec
    /\ promptLoading' = FALSE
    /\ promptPc' = "done"
    /\ UNCHANGED <<attempt, requests, expandCalls>>
    /\ UNCHANGED NotExpand

\* the $fetch rejects: on the last attempt the error is thrown to
\* expandPrompt, which sets error and returns null; before, the backoff
\* timer is awaited
FetchReject ==
    /\ promptPc = "fetching"
    /\ IF LastAttempt(attempt)
       THEN /\ promptError' = {MessageOr("Failed after 3 attempts")}
            /\ promptRet' = {{}}
            /\ promptLoading' = FALSE
            /\ promptPc' = "done"
       ELSE /\ promptPc' = "backoff"
            /\ UNCHANGED <<promptError, promptRet, promptLoading>>
    /\ UNCHANGED <<attempt, requests, generatedSpec, response, expandCalls>>
    /\ UNCHANGED NotExpand

\* the backoff timer fires: next attempt, next $fetch
BackoffElapsed ==
    /\ promptPc = "backoff"
    /\ attempt' = attempt + 1
    /\ requests' = requests + 1
    /\ promptPc' = "fetching"
    /\ UNCHANGED <<generatedSpec, promptError, promptLoading, promptRet,
                   response, expandCalls>>
    /\ UNCHANGED NotExpand

\* reset(), whenever it is called
ResetExpansion ==
    /\ promptLoading' = FALSE
    /\ promptError' = {}
    /\ generatedSpec' = {}
    /\ UNCHANGED <<promptPc, attempt, requests, promptRet, response, expandCalls>>
    /\ UNCHANGED NotExpand

InitExpand ==
    /\ PreviewIdle
    /\ SubtitleIdle
    /\ ValidateIdle
    /\ NarrationIdle
    /\ SyncIdle
    /\ PlaybackIdle
    /\ ProjectIdle
    /\ EditorIdle
    /\ ExpandIdle

NextExpand ==
    \/ ExpandPrompt
    \/ FetchResolve
    \/ FetchReject
    \/ BackoffElapsed
    \/ ResetExpansion

SpecExpand == InitExpand /\ [][NextExpand]_vars

(***************************************************************************)
(* useVideoAssembly: generateSubtitles / formatVTTTime (the server's       *)
(* generateWebVTT is the same code).                                       *)
(*                                                                         *)
(* Cue times are JavaScript Numbers: IEEE-754 doubles, every operation     *)
(* rounded to 53 significant bits, ties to even.  A non-negative double is *)
(* kept as the sequence of its bits, lowest first, bit k of weight         *)
(* 2^(k - 1 - FracBits), without zeros at the high end (0 is <<>>).  The   *)
(* grid is fine enough for every value in [1/4, 2^10) that occurs.         *)
(***************************************************************************)
Mantissa == 53
FracBits == 58

Zeros(n) == [k \in 1..n |-> 0]

BitAt(b, k) == IF k >= 1 /\ k <= Len(b) THEN b[k] ELSE 0

\* b without the zeros at its high end
Strip(b) ==
    IF \A k \in 1..Len(b) : b[k] = 0 THEN <<>>
    ELSE SubSeq(b, 1, CHOOSE k \in 1..Len(b) :
                          b[k] = 1 /\ \A j \in (k + 1)..Len(b) : b[j] = 0)

RECURSIVE BitsOfNat(_)
BitsOfNat(n) == IF n = 0 THEN <<>> ELSE <<n % 2>> \o BitsOfNat(n \div 2)

RECURSIVE NatOfBits(_)
NatOfBits(b) == IF b = <<>> THEN 0 ELSE b[1] + 2 * NatOfBits(Tail(b))

\* the carry into bit k of a + b
RECURSIVE Carry(_, _, _)
Carry(a, b, k) ==
    IF k = 1 THEN 0
    ELSE (BitAt(a, k - 1) + BitAt(b, k - 1) + Carry(a, b, k - 1)) \div 2

\* the exact sum of two bit sequences
BitsAdd(a, b) ==
    Strip([k \in 1..((IF Len(a) > Len(b) THEN Len(a) ELSE Len(b)) + 1) |->
              (BitAt(a, k) + BitAt(b, k) + Carry(a, b, k)) % 2])

\* the carry into bit k of m * a
RECURSIVE TimesCarry(_, _, _)
TimesCarry(a, m, k) ==
    IF k = 1 THEN 0
    ELSE (BitAt(a, k - 1) * m + TimesCarry(a, m, k - 1)) \div 2

\* the exact product of a bit sequence and a natural m
BitsTimes(m, a) ==
    Strip([k \in 1..(Len(a) + Len(BitsOfNat(m))) |->
              (BitAt(a, k) * m + TimesCarry(a, m, k)) % 2])

\* round to nearest, ties to even, at 53 significant bits; sticky tells
\* that the exact value has more below the lowest bit of b
RoundToDouble(b, sticky) ==
    IF Len(b) <= Mantissa THEN b
    ELSE LET t == Len(b) - Mantissa
             kept == SubSeq(b, t + 1, Len(b))
             below == sticky \/ \E k \in 1..(t - 1) : b[k] = 1
             up == b[t] = 1 /\ (below \/ kept[1] = 1)
         IN Zeros(t) \o (IF up THEN BitsAdd(kept, <<1>>) ELSE kept)

\* a whole number as a double
FromInt(n) == IF n = 0 THEN <<>> ELSE Zeros(FracBits) \o BitsOfNat(n)

\* a + b
FloatAdd(a, b) == RoundToDouble(BitsAdd(a, b), FALSE)

\* m * a for a whole number m
FloatTimes(m, a) == RoundToDouble(BitsTimes(m, a), FALSE)

\* (2^k * r) mod n
RECURSIVE Rem2(_, _, _)
Rem2(r, n, k) == IF k = 0 THEN r % n ELSE (2 * Rem2(r, n, k - 1)) % n

\* the FracBits bits after the binary point of r / n (r < n), lowest first
FracDigits(r, n) ==
    [j \in 1..FracBits |-> (2 * Rem2(r, n, FracBits - j)) \div n]

\* l / n for whole numbers l >= 0, n >= 1
FloatDiv(l, n) ==
    RoundToDouble(Strip(FracDigits(l % n, n) \o BitsOfNat(l \div n)),
                  Rem2(l % n, n, FracBits) # 0)

\* Math.floor(a)
Floor(a) == NatOfBits(SubSeq(a, FracBits + 1, Len(a)))

\* a % 1 (exact)
FracPart(a) ==
    Strip(SubSeq(a, 1, IF Len(a) < FracBits THEN Len(a) ELSE FracBits))

\* const chunkDuration = (scene.end - scene.start) / scene.narration.length
ChunkDuration(scene) == FloatDiv(scene.end - scene.start, scene.narration)

\* formatVTTTime(seconds): <<hours, minutes, secs, ms>>.  For the times
\* below one hour that occur, the floors of seconds / 3600,
\* (seconds % 3600) / 60 and seconds % 60 are those of the whole part.
FormatVTTTime(seconds) ==
    LET whole == Floor(seconds)
    IN <<whole \div 3600,
         (whole % 3600) \div 60,
         whole % 60,
         Floor(FloatTimes(1000, FracPart(seconds)))>>

\* the cue written for scene.narration[chunkIndex] (indices zero-based)
CueOf(scene, sceneIndex, chunkIndex) ==
    LET chunkDuration == ChunkDuration(scene)
        start == FloatAdd(FromInt(scene.start),
                          FloatTimes(chunkIndex, chunkDuration))
        end == FloatAdd(start, chunkDuration)
    IN [id |-> <<sceneIndex + 1, chunkIndex + 1>>,
        start |-> start, end |-> end,
        from |-> FormatVTTTime(start), to |-> FormatVTTTime(end)]

\* spec.scenes.forEach((scene, sceneIndex) =>
\*   scene.narration.forEach((text, chunkIndex) => ...)), scenes 1..n done
RECURSIVE CuesUpTo(_, _)
CuesUpTo(scenes, n) ==
    IF n = 0 THEN <<>>
    ELSE CuesUpTo(scenes, n - 1)
         \o [k \in 1..scenes[n].narration |-> CueOf(scenes[n], n - 1, k - 1)]

GenerateSubtitlesOf(scenes) == CuesUpTo(scenes, Len(scenes))

\* the scenes tried: windows of 1 to 3 seconds with up to 3 chunks
VttSceneInputs == [start : {0, 1}, end : {2, 3}, narration : {0, 1, 2, 3}]

\* the specs tried: one or two such scenes
VttInputs ==
    {<<a>> : a \in VttSceneInputs}
    \cup {<<a, b>> : a \in VttSceneInputs, b \in VttSceneInputs}

\* generateSubtitles(spec)
GenerateSubtitles ==
    /\ ~vttDone
    /\ vtt' = GenerateSubtitlesOf(vttSpec)
    /\ vttDone' = TRUE
    /\ UNCHANGED vttSpec
    /\ UNCHANGED NotSubtitles

InitSubtitles ==
    /\ PreviewIdle
    /\ ValidateIdle
    /\ NarrationIdle
    /\ SyncIdle
    /\ PlaybackIdle
    /\ AppIdle
    /\ vttSpec \in VttInputs
    /\ vtt = <<>>
    /\ vttDone = FALSE

NextSubtitles == GenerateSubtitles

SpecSubtitles == InitSubtitles /\ [][NextSubtitles]_vars

(***************************************************************************)
(* Preview page: playback loop, watchers and narration audio.              *)
(*                                                                         *)
(* Times are milliseconds.  A handler and the watcher flush that follows   *)
(* it (Vue runs the queued watchers in a microtask, before the next frame  *)
(* callback or event) make one action.                                     *)
(***************************************************************************)
\* currentTime.value += 0.016
FrameStep == 16

\* hasAudio
HasAudio == Len(pageAudio) > 0

\* hasScenes
HasScenes == Len(pageScenes) > 0

\* scenes.value.findIndex(scene => time >= scene.start && time < scene.end)
FindIndex(time) ==
    LET hits == {k \in 1..Len(pageScenes) :
                    time >= pageScenes[k].start /\ time < pageScenes[k].end}
    IN IF hits = {} THEN 0 - 1
       ELSE (CHOOSE k \in hits : \A j \in hits : k <= j) - 1

\* watch(currentTime) sets currentSceneIndex, watch(currentSceneIndex) sets
\* currentTime to the scene's start, which runs watch(currentTime) again:
\* <<time, index>> once no watcher has anything left to do
RECURSIVE SettleFromTime(_, _)
SettleFromTime(time, index) ==
    LET found == FindIndex(time)
    IN IF found = 0 - 1 \/ found = index THEN <<time, index>>
       ELSE IF pageScenes[found + 1].start = time THEN <<time, found>>
            ELSE SettleFromTime(pageScenes[found + 1].start, found)

\* the same, when a handler wrote currentSceneIndex
SettleFromIndex(time, index) ==
    IF index + 1 \in 1..Len(pageScenes) /\ pageScenes[index + 1].start # time
    THEN SettleFromTime(pageScenes[index + 1].start, index)
    ELSE <<time, index>>

\* the audio state the functions below work on
AudioNow ==
    [active |-> activeAudioSegments, started |-> startedAudio,
     canplay |-> canplayListeners]

\* getActiveAudioSegments(time), as chunk ids
ActiveChunkIds(time) ==
    {pageAudio[k].id : k \in {j \in 1..Len(pageAudio) :
                                 time >= pageAudio[j].start /\ time < pageAudio[j].end}}

\* updateAudioPlayback(time): segments left are paused; a segment entered
\* is played at once when its element has data, else an onCanPlay listener
\* is added
UpdateAudioPlayback(a, time) ==
    IF ~HasAudio THEN a
    ELSE LET activeChunks == ActiveChunkIds(time)
             left == a.active \ activeChunks
             entered == activeChunks \ a.active
             ready == entered \cap loadedAudio
         IN [active |-> (a.active \ left) \cup ready,
             started |-> (a.started \ left) \cup ready,
             canplay |-> a.canplay \cup (entered \ ready)]

\* stopAllAudio()
StopAllAudio(a) == [a EXCEPT !.active = {}, !.started = {}]

\* watch(isPlaying): runs when the handler changed isPlaying
WatchIsPlaying(a, playing, time) ==
    IF playing = isPlaying \/ ~HasAudio THEN a
    ELSE IF playing THEN UpdateAudioPlayback(a, time) ELSE StopAllAudio(a)

\* watch(currentTime), the audio one: runs when currentTime ends up changed
WatchTimeAudio(a, playing, time) ==
    IF time # playTime /\ playing /\ HasAudio
    THEN UpdateAudioPlayback(a, time) ELSE a

\* the id requestAnimationFrame returns: one not in use
FreshFrame(inUse) ==
    CHOOSE n \in 1..(Cardinality(inUse) + 1) : n \notin inUse

\* mutant: cancelAnimationFrame without effect
CancelAnimationFrame_Kept(pending, handle) == pending

\* if (playbackAnimationFrame) cancelAnimationFrame(playbackAnimationFrame)
CancelAnimationFrame(pending, handle) == pending \ handle

\* what a handler leaves (time, index, playing, audio), then the watchers
Commit(time, index, playing, a) ==
    LET settled == IF time # playTime THEN SettleFromTime(time, index)
                   ELSE IF index # currentSceneIndex
                        THEN SettleFromIndex(time, index)
                        ELSE <<time, index>>
        audio == WatchTimeAudio(WatchIsPlaying(a, playing, settled[1]),
                                playing, settled[1])
    IN /\ playTime' = settled[1]
       /\ currentSceneIndex' = settled[2]
       /\ isPlaying' = playing
       /\ activeAudioSegments' = audio.active
       /\ startedAudio' = audio.started
       /\ canplayListeners' = audio.canplay
       /\ UNCHANGED <<pageScenes, pageDuration, pageAudio, mounted, loadedAudio>>

\* togglePlay()
TogglePlay ==
    /\ mounted
    /\ IF ~isPlaying
       THEN LET fresh == FreshFrame(pendingFrames \cup playbackAnimationFrame)
            IN /\ playbackAnimationFrame' = {fresh}
               /\ pendingFrames' = pendingFrames \cup {fresh}
       ELSE /\ playbackAnimationFrame' = {}
            /\ pendingFrames' = CancelAnimationFrame(pendingFrames,
                                                     playbackAnimationFrame)
    /\ Commit(playTime, currentSceneIndex, ~isPlaying, AudioNow)
    /\ UNCHANGED NotPreview

\* playPreview(); its button is disabled without scenes
PlayPreview ==
    /\ mounted
    /\ HasScenes
    /\ LET kept == CancelAnimationFrame(pendingFrames, playbackAnimationFrame)
           fresh == FreshFrame(kept \cup playbackAnimationFrame)
       IN /\ playbackAnimationFrame' = {fresh}
          /\ pendingFrames' = kept \cup {fresh}
    /\ Commit(0, currentSceneIndex, TRUE, AudioNow)
    /\ UNCHANGED NotPreview

\* pauseOnSeek(): mousedown on the slider
PauseOnSeek ==
    /\ mounted
    /\ IF isPlaying
       THEN /\ playbackAnimationFrame' = {}
            /\ pendingFrames' = CancelAnimationFrame(pendingFrames,
                                                     playbackAnimationFrame)
       ELSE UNCHANGED <<playbackAnimationFrame, pendingFrames>>
    /\ Commit(playTime, currentSceneIndex, FALSE, AudioNow)
    /\ UNCHANGED NotPreview

\* the positions of the slider: min 0, max duration, step 0.1
SliderStep == 100

SliderValues == {SliderStep * k : k \in 0..(pageDuration \div SliderStep)}

\* input on the slider: v-model writes currentTime, then seekTo()
SeekTo ==
    /\ mounted
    /\ \E value \in SliderValues :
          Commit(value, currentSceneIndex, isPlaying,
                 UpdateAudioPlayback(AudioNow, value))
    /\ UNCHANGED <<playbackAnimationFrame, pendingFrames>>
    /\ UNCHANGED NotPreview

\* jumpToScene(scene.start): a click in the scene list
JumpToScene ==
    /\ mounted
    /\ \E k \in 1..Len(pageScenes) :
          Commit(pageScenes[k].start, currentSceneIndex, isPlaying,
                 UpdateAudioPlayback(AudioNow, pageScenes[k].start))
    /\ UNCHANGED <<playbackAnimationFrame, pendingFrames>>
    /\ UNCHANGED NotPreview

\* previousScene()
PreviousScene ==
    /\ mounted
    /\ currentSceneIndex > 0
    /\ Commit(playTime, currentSceneIndex - 1, isPlaying, AudioNow)
    /\ UNCHANGED <<playbackAnimationFrame, pendingFrames>>
    /\ UNCHANGED NotPreview

\* nextScene()
NextScene ==
    /\ mounted
    /\ currentSceneIndex < Len(pageScenes) - 1
    /\ Commit(playTime, currentSceneIndex + 1, isPlaying, AudioNow)
    /\ UNCHANGED <<playbackAnimationFrame, pendingFrames>>
    /\ UNCHANGED NotPreview

\* animatePlayback(): the browser runs a pending frame callback
AnimatePlayback ==
    /\ \E id \in pendingFrames :
          LET rest == pendingFrames \ {id}
              fresh == FreshFrame(rest \cup {id})
          IN IF ~isPlaying
             THEN /\ pendingFrames' = rest
                  /\ UNCHANGED <<playbackAnimationFrame, pageScenes, pageDuration,
                                 pageAudio, mounted, isPlaying, playTime,
                                 currentSceneIndex, activeAudioSegments,
                                 startedAudio, canplayListeners, loadedAudio>>
             ELSE IF playTime + FrameStep >= pageDuration
                  THEN /\ pendingFrames' =
                              CancelAnimationFrame(rest, playbackAnimationFrame)
                       /\ playbackAnimationFrame' = {}
                       /\ Commit(pageDuration, currentSceneIndex, FALSE,
                                 StopAllAudio(AudioNow))
                  ELSE /\ pendingFrames' = rest \cup {fresh}
                       /\ playbackAnimationFrame' = {fresh}
                       /\ Commit(playTime + FrameStep, currentSceneIndex, TRUE,
                                 AudioNow)
    /\ UNCHANGED NotPreview

\* 'canplay' of an audio element: it has data from now on, and an onCanPlay
\* listener plays it and removes itself
CanPlay ==
    /\ mounted
    /\ \E k \in 1..Len(pageAudio) :
          LET id == pageAudio[k].id
          IN /\ id \notin loadedAudio
             /\ loadedAudio' = loadedAudio \cup {id}
             /\ IF id \in canplayListeners
                THEN /\ startedAudio' = startedAudio \cup {id}
                     /\ activeAudioSegments' = activeAudioSegments \cup {id}
                     /\ canplayListeners' = canplayListeners \ {id}
                ELSE UNCHANGED <<startedAudio, activeAudioSegments,
                                 canplayListeners>>
    /\ UNCHANGED <<pageScenes, pageDuration, pageAudio, mounted, isPlaying,
                   playTime, currentSceneIndex, playbackAnimationFrame,
                   pendingFrames>>
    /\ UNCHANGED NotPreview

\* onUnmounted(): the watchers are stopped by then, the audio elements are
\* paused and emptied
Unmount ==
    /\ mounted
    /\ mounted' = FALSE
    /\ isPlaying' = FALSE
    /\ pendingFrames' = CancelAnimationFrame(pendingFrames, playbackAnimationFrame)
    /\ playbackAnimationFrame' = {}
    /\ activeAudioSegments' = {}
    /\ startedAudio' = {}
    /\ canplayListeners' = {}
    /\ UNCHANGED <<pageScenes, pageDuration, pageAudio, playTime,
                   currentSceneIndex, loadedAudio>>
    /\ UNCHANGED NotPreview

\* the project the page is opened on.  The page takes the scenes, the
\* duration and the segments as the project state holds them, and
\* importProject stores a file's spec unvalidated: here two scenes of
\* half a second in all, with and without narration audio
ShortScenes ==
    <<[start |-> 0, end |-> 200], [start |-> 200, end |-> 500]>>

PreviewInputs ==
    {[scenes |-> ShortScenes, duration |-> 500, audio |-> <<>>],
     [scenes |-> ShortScenes, duration |-> 500,
      audio |-> <<[id |-> "scene0_chunk0", start |-> 0, end |-> 300]>>],
     [scenes |-> <<>>, duration |-> 500,
      audio |-> <<[id |-> "scene0_chunk0", start |-> 0, end |-> 300]>>]}

\* the page after setup on the input p: the immediate watcher has set the
\* scene index for time 0
Mounted(p) ==
    /\ pageScenes = p.scenes
    /\ pageDuration = p.duration
    /\ pageAudio = p.audio
    /\ mounted = TRUE
    /\ isPlaying = FALSE
    /\ playTime = 0
    /\ currentSceneIndex =
          (IF \E k \in 1..Len(p.scenes) : 0 >= p.scenes[k].start /\ 0 < p.scenes[k].end
           THEN (CHOOSE k \in 1..Len(p.scenes) :
                    /\ 0 >= p.scenes[k].start /\ 0 < p.scenes[k].end
                    /\ \A j \in 1..(k - 1) :
                          ~(0 >= p.scenes[j].start /\ 0 < p.scenes[j].end)) - 1
           ELSE 0)
    /\ playbackAnimationFrame = {}
    /\ pendingFrames = {}
    /\ activeAudioSegments = {}
    /\ startedAudio = {}
    /\ canplayListeners = {}
    /\ loadedAudio = {}

InitPreview ==
    /\ ValidateIdle
    /\ NarrationIdle
    /\ SyncIdle
    /\ PlaybackIdle
    /\ AppIdle
    /\ SubtitleIdle
    /\ \E p \in PreviewInputs : Mounted(p)

NextPreview ==
    \/ TogglePlay
    \/ PlayPreview
    \/ PauseOnSeek
    \/ SeekTo
    \/ JumpToScene
    \/ PreviousScene
    \/ NextScene
    \/ AnimatePlayback
    \/ CanPlay
    \/ Unmount

SpecPreview == InitPreview /\ [][NextPreview]_vars

(***************************************************************************)
(* Preview playback left to run: started once, then only frame callbacks   *)
(* and audio events.  The browser runs every pending frame callback.       *)
(***************************************************************************)
\* the projects played: the two-scene spec of 80 s, and the scenes the
\* editor leaves after moveScene(0, 1) and addScene() on the scenes 0-15 and
\* 15-30 of a 120 s spec; one narration segment of 3 s
RunInputs ==
    {[scenes |-> <<[start |-> 0, end |-> 15000],
                   [start |-> 15000, end |-> 45000]>>,
      duration |-> 80000,
      audio |-> <<[id |-> "scene0_chunk0", start |-> 0, end |-> 3000]>>],
     [scenes |-> <<[start |-> 15000, end |-> 30000],
                   [start |-> 0, end |-> 15000],
                   [start |-> 15000, end |-> 45000]>>,
      duration |-> 120000,
      audio |-> <<[id |-> "scene0_chunk0", start |-> 0, end |-> 3000]>>]}

\* the one click on "Play Preview"
StartPlayback ==
    /\ ~isPlaying
    /\ playTime = 0
    /\ PlayPreview

InitPreviewRun ==
    /\ ValidateIdle
    /\ NarrationIdle
    /\ SyncIdle
    /\ PlaybackIdle
    /\ AppIdle
    /\ SubtitleIdle
    /\ \E p \in RunInputs : Mounted(p)

NextPreviewRun ==
    \/ StartPlayback
    \/ AnimatePlayback
    \/ CanPlay

SpecPreviewRun ==
    InitPreviewRun /\ [][NextPreviewRun]_vars /\ WF_vars(AnimatePlayback)

(***************************************************************************)
(* Properties of the schema                                                *)
(***************************************************************************)
\* the injective maps of 1..n onto itself
Perms(n) == {f \in [1..n -> 1..n] : \A a, b \in 1..n : f[a] = f[b] => a = b}

\* the order of the indices of scenes by start, ties in array order
StartOrder(scenes) ==
    CHOOSE p \in Perms(Len(scenes)) :
        \A a, b \in 1..Len(scenes) :
            a < b => \/ scenes[p[a]].start < scenes[p[b]].start
                     \/ /\ scenes[p[a]].start = scenes[p[b]].start
                        /\ p[a] < p[b]

SortedOverlap(scenes) ==
    LET p == StartOrder(scenes)
    IN \E k \in 1..(Len(scenes) - 1) :
          scenes[p[k]].end > scenes[p[k + 1]].start

ArrayUnsorted(scenes) ==
    \E k \in 1..(Len(scenes) - 1) : scenes[k].start > scenes[k + 1].start

\* the temporal rules of the data model, each stated on the payload
TemporalRulesHold(s) ==
    /\ s.duration_target >= 80
    /\ s.duration_target <= 180
    /\ Len(s.scenes) >= 1
    /\ \A k \in 1..Len(s.scenes) :
          /\ s.scenes[k].start >= 0
          /\ s.scenes[k].end > s.scenes[k].start
          /\ s.scenes[k].end <= s.duration_target + 5
    /\ ~SortedOverlap(s.scenes)

\* C1: a spec whose scenes, sorted by start, have some scene ending after
\* the next one starts is rejected, whatever the array order; a spec whose
\* sorted scenes do not overlap gets no overlap issue.
C1_SortedOverlapRejected ==
    parseResult.done =>
        /\ SortedOverlap(spec.scenes) => ~parseResult.success
        /\ ~SortedOverlap(spec.scenes) => <<"overlap", 0>> \notin parseResult.issues

\* C1 witness: scenes stored out of start order, overlapping once sorted,
\* rejected with the overlap issue
C1_Witness ==
    /\ parseResult.done
    /\ ArrayUnsorted(spec.scenes)
    /\ SortedOverlap(spec.scenes)
    /\ <<"overlap", 0>> \in parseResult.issues

\* C2: in every accepted spec the scene that ends latest ends no later than
\* duration_target + 5, also when the array is not in start order.
C2_LatestSceneWithinTarget ==
    (parseResult.done /\ parseResult.success) =>
        \A k \in 1..Len(spec.scenes) :
            spec.scenes[k].end <= spec.duration_target + 5

\* C3: a duration_target below 80 or above 180 is rejected; one within
\* [80, 180] gets no duration issue.
C3_DurationTargetRange ==
    parseResult.done =>
        /\ (spec.duration_target < 80 \/ spec.duration_target > 180)
              => ~parseResult.success
        /\ (spec.duration_target >= 80 /\ spec.duration_target <= 180)
              => /\ <<"duration_too_small", 0>> \notin parseResult.issues
                 /\ <<"duration_too_big", 0>> \notin parseResult.issues

\* C3 witness: the two limits themselves are accepted, with scenes present
C3_Witness ==
    /\ parseResult.done
    /\ parseResult.success
    /\ spec.duration_target \in {80, 180}

\* C4 (as claimed): a spec with a custom scene type is accepted when all
\* temporal rules hold.
C4_CustomTypeAccepted ==
    (parseResult.done /\ TemporalRulesHold(spec)) => parseResult.success

\* C4 (amended): the scene type is a closed set.  A scene whose type is not
\* intro, skill1, skill2 or summary is rejected, and so is a spec containing
\* it, even when all temporal rules hold; a spec whose types are all among
\* the four and whose temporal rules hold is accepted.
C4_ClosedSceneTypes ==
    LET four == {"intro", "skill1", "skill2", "summary"}
    IN /\ parseResult.done =>
            /\ (\E k \in 1..Len(spec.scenes) : spec.scenes[k].type \notin four)
                  => ~parseResult.success
            /\ ((\A k \in 1..Len(spec.scenes) : spec.scenes[k].type \in four)
                  /\ TemporalRulesHold(spec)) => parseResult.success
       /\ sceneResult.done =>
            (spec.scenes[sceneResult.index].type \notin four
                  => ~sceneResult.success)

\* C4 witness: a custom category, all temporal rules holding, rejected
C4_Witness ==
    /\ parseResult.done
    /\ sceneResult.done
    /\ TemporalRulesHold(spec)
    /\ spec.scenes[sceneResult.index].type = "custom"
    /\ ~sceneResult.success
    /\ ~parseResult.success

\* C5: a scene whose end is not strictly greater than its start is rejected
\* by SceneSchema, and a spec containing such a scene is rejected.
C5_SceneBoundsRejected ==
    /\ sceneResult.done =>
          (spec.scenes[sceneResult.index].end <= spec.scenes[sceneResult.index].start
              => ~sceneResult.success)
    /\ parseResult.done =>
          ((\E k \in 1..Len(spec.scenes) : spec.scenes[k].end <= spec.scenes[k].start)
              => ~parseResult.success)

\* C5 witness: a scene of a known type with end == start, rejected
C5_Witness ==
    /\ sceneResult.done
    /\ parseResult.done
    /\ spec.scenes[sceneResult.index].type = "intro"
    /\ spec.scenes[sceneResult.index].end = spec.scenes[sceneResult.index].start
    /\ ~sceneResult.success
    /\ ~parseResult.success

(***************************************************************************)
(* Properties of the narration timing resolver                             *)
(***************************************************************************)
Returned == pc = "done" /\ ret.kind = "map"
Failed == pc = "done" /\ ret.kind = "null"

\* the chunk ids of the spec, from its narration alone
ExpectedIds ==
    UNION {{[scene |-> sc - 1, chunk |-> c - 1] : c \in 1..narration[sc].chunks} :
              sc \in 1..Len(narration)}

IdBefore(a, b) ==
    a.scene < b.scene \/ (a.scene = b.scene /\ a.chunk < b.chunk)

\* C6: the returned segments, in scene order then chunk order, have
\* strictly increasing starts, each next start is the previous end plus
\* 1.5 s, and each end is its start plus the duration the TTS gave.
C6_TimingMonotone ==
    Returned =>
        /\ \A k \in 1..(Len(ret.map) - 1) :
              /\ IdBefore(ret.map[k].id, ret.map[k + 1].id)
              /\ ret.map[k].start < ret.map[k + 1].start
              /\ ret.map[k].end + 15 = ret.map[k + 1].start
        /\ Len(durations) = Len(ret.map)
        /\ \A k \in 1..Len(ret.map) :
              ret.map[k].end = ret.map[k].start + durations[k]

\* C6 witness: three or more segments over two scenes, unequal durations
C6_Witness ==
    /\ Returned
    /\ Len(ret.map) >= 3
    /\ ret.map[1].id.scene # ret.map[Len(ret.map)].id.scene
    /\ durations[1] # durations[2]

\* C7: a successful run returns exactly one segment per chunk of the spec,
\* keyed by the zero-based scene and chunk index, after exactly one TTS
\* request per chunk; the first segment starts at 0 and the cursor runs on
\* across scene boundaries.
C7_OneSegmentPerChunk ==
    Returned =>
        /\ {ret.map[k].id : k \in 1..Len(ret.map)} = ExpectedIds
        /\ Len(ret.map) = Cardinality(ExpectedIds)
        /\ {ttsCalls[k] : k \in 1..Len(ttsCalls)} = ExpectedIds
        /\ Len(ttsCalls) = Cardinality(ExpectedIds)
        /\ Len(ret.map) >= 1 => ret.map[1].start = 0
        /\ \A k \in 1..(Len(ret.map) - 1) :
              ret.map[k].id.scene # ret.map[k + 1].id.scene
                 => ret.map[k + 1].start = ret.map[k].end + 15

\* C7 witness: two scenes with chunks, the second scene starting elsewhere
\* than where the cursor stands
C7_Witness ==
    /\ Returned
    /\ \E k \in 1..(Len(ret.map) - 1) :
          /\ ret.map[k].id.scene = 0
          /\ ret.map[k + 1].id.scene = 1
          /\ ret.map[k + 1].start # narration[2].start
    /\ narration[1].start # 0

\* C8: when the TTS fails for a chunk the run stops: the requests issued
\* are those of the chunks up to the failed one, null is returned, error
\* names the failed chunk, and audioSegments holds nothing of the failed
\* run; no partial map is ever published while a run is under way.
C8_FailureAborts ==
    /\ Failed =>
          /\ error.kind # "null"
          /\ Len(ttsCalls) = Len(durations) + 1
          /\ error.chunk = ttsCalls[Len(ttsCalls)]
          /\ error.chunk \in ExpectedIds
          /\ audioSegments = <<>>
    /\ pc = "awaiting" => audioSegments = <<>>
    /\ audioSegments # <<>> => (Returned /\ audioSegments = ret.map)

\* C8 witness: a failure after some chunks were timed, with chunks left
C8_Witness ==
    /\ Failed
    /\ Len(durations) >= 1
    /\ segments # <<>>
    /\ Len(ttsCalls) < Cardinality(ExpectedIds)
    /\ runs = 2

(***************************************************************************)
(* Properties of the sync validator                                        *)
(***************************************************************************)
SeqToSet(q) == {q[k] : k \in 1..Len(q)}

\* C9: the valid flag and the set of errors are the same for every
\* insertion order of the same segments.
C9_InsertionOrderIrrelevant ==
    syncResult.done =>
        \A p \in Perms(Len(syncInput)) :
            LET other == [k \in 1..Len(syncInput) |-> syncInput[p[k]]]
            IN /\ ValidateSyncOf(other).valid = syncResult.valid
               /\ SeqToSet(ValidateSyncOf(other).errors) = SeqToSet(syncResult.errors)

InStartOrder(segs) ==
    \A k \in 1..(Len(segs) - 1) : segs[k].start <= segs[k + 1].start

Called == lastTime # {}
QueryTime == CHOOSE t \in lastTime : TRUE
RelTime == QueryTime - propsScene.start
HasEvents == propsScene.events # {}
SceneEvents == CHOOSE es \in propsScene.events : TRUE

\* window end of an event, duration 1.0 s when absent
WindowEnd(e) == e.t + (IF e.duration = {} THEN 10 ELSE CHOOSE d \in e.duration : TRUE)

InWindow(e, rel) == rel >= e.t /\ rel <= WindowEnd(e)

\* the end position an event's parameters describe
FinalPosition(e) ==
    <<(IF e.path = "straight_line" /\ e.endX # {}
       THEN <<CHOOSE v \in e.endX : TRUE, 1>> ELSE <<10, 1>>),
      (<<1, 10>>), (<<0, 1>>)>>

\* the position applyEventAnimation leaves for an event at progress 1.0
\* (an endX of 0 counts as absent)
AppliedAtOne(e) ==
    <<(IF e.path = "straight_line" /\ e.endX \notin {{}, {0}}
       THEN <<CHOOSE v \in e.endX : TRUE, 1>> ELSE <<10, 1>>),
      (<<1, 10>>), (<<0, 1>>)>>

PuckIndices == {k \in 1..Len(SceneEvents) : SceneEvents[k].action = "animate_puck_3d"}

\* C11: the position after a call depends on the scene and the time only:
\* it is what the same call gives when nothing was called before.
C11_PureFunctionOfSceneAndTime ==
    Called =>
        animatedPuckPosition =
            UpdateSceneAtTimeOf(propsScene, RestPosition, QueryTime)

\* C12: with a single position-animating event in the scene, a query after
\* the end of its window yields the event's final position.
C12_HoldAfterSingleEvent ==
    (Called /\ HasEvents) =>
        \A k \in PuckIndices :
            (PuckIndices = {k} /\ RelTime > WindowEnd(SceneEvents[k]))
                => animatedPuckPosition = FinalPosition(SceneEvents[k])

\* C13 (as claimed): with no event active and some position-animating event
\* elapsed, the position is the final state of the most recent elapsed one.
C13_HoldMostRecentElapsed ==
    (Called /\ HasEvents) =>
        LET elapsed == {k \in PuckIndices : RelTime > WindowEnd(SceneEvents[k])}
            latest == {k \in elapsed :
                          \A j \in elapsed :
                              WindowEnd(SceneEvents[j]) <= WindowEnd(SceneEvents[k])}
        IN ((\A k \in 1..Len(SceneEvents) : ~InWindow(SceneEvents[k], RelTime))
              /\ elapsed # {})
             => \E k \in latest : animatedPuckPosition = AppliedAtOne(SceneEvents[k])

\* C13 (amended): with no event active at a query time after the scene
\* start, the position is what applying the last animate_puck_3d event of
\* the events array at progress 1.0 gives when the time is past that event's
\* window end, and the rest position otherwise; so between two animation
\* events listed in time order the object reverts to rest.
C13_HoldLastListedOrRest ==
    (Called /\ HasEvents /\ RelTime > 0
       /\ \A k \in 1..Len(SceneEvents) : ~InWindow(SceneEvents[k], RelTime)) =>
        LET last == {k \in PuckIndices : \A j \in PuckIndices : j <= k}
        IN /\ \A k \in last :
                 animatedPuckPosition =
                     IF RelTime > WindowEnd(SceneEvents[k])
                     THEN AppliedAtOne(SceneEvents[k]) ELSE RestPosition
           /\ last = {} => animatedPuckPosition = RestPosition

\* C13 witness: between two puck events in time order, the first elapsed,
\* the position back at rest
C13_Witness ==
    /\ Called
    /\ HasEvents
    /\ Len(SceneEvents) = 2
    /\ PuckIndices = {1, 2}
    /\ RelTime > WindowEnd(SceneEvents[1])
    /\ RelTime < SceneEvents[2].t
    /\ AppliedAtOne(SceneEvents[1]) # RestPosition
    /\ animatedPuckPosition = RestPosition

\* C14: a query at a time not after the scene start yields the rest
\* position [0, 0.1, 0], whatever the events and the earlier calls.
C14_RestBeforeSceneStart ==
    (Called /\ QueryTime <= propsScene.start) =>
        animatedPuckPosition = <<(<<0, 1>>), (<<1, 10>>), (<<0, 1>>)>>

\* C14 witness: a query exactly at the start of a scene that starts at 5 s
\* and whose puck event opens at t = 0 away from the rest position
C14_Witness ==
    /\ Called
    /\ HasEvents
    /\ propsScene.start = 50
    /\ QueryTime = propsScene.start
    /\ \E k \in PuckIndices :
          /\ SceneEvents[k].t = 0
          /\ SceneEvents[k].startX = {4}
          /\ SceneEvents[k].path = "straight_line"
    /\ animatedPuckPosition = RestPosition

(***************************************************************************)
(* Properties of the project state                                         *)
(***************************************************************************)
StoredData == CHOOSE d \in storage : TRUE

\* C16: a loadProject that follows a saveProject leaves videoSpec,
\* audioSegments and projectName as they were when saved.
C16_SaveLoadRoundTrip ==
    [][(lastOp = "saveProject" /\ lastOp' = "loadProject")
         => /\ videoSpec' = videoSpec
            /\ projectAudioSegments' = projectAudioSegments
            /\ projectName' = projectName]_vars

C17_WitnessCleared ==
    /\ lastOp = "clearProject"
    /\ storage = {}
    /\ importRet = {TRUE}

ImportingFile == CHOOSE f \in importFile : TRUE

C15_ProjectSpecValid ==
    /\ \A v \in videoSpec : ValidateSpecOf(v)
    /\ \A d \in storage : \A v \in SpecOrNull(d.videoSpec) : ValidateSpecOf(v)

(***************************************************************************)
(* Properties of prompt expansion                                          *)
(***************************************************************************)
Returns == promptPc = "fetching" /\ promptPc' = "done"

\* the payload the call received is a spec that passes VideoSpecSchema
PayloadPasses(resp) ==
    /\ resp.got
    /\ resp.body # {}
    /\ \A sp \in resp.body : VideoSpecSchemaParse(sp).success

\* C19: when expandPrompt returns, it returns the spec and has set
\* generatedSpec to it exactly when the payload passes VideoSpecSchema;
\* otherwise it returns null, has set error and has left generatedSpec as
\* it was.
C19_TrustOnlyValidated ==
    [][Returns =>
         IF PayloadPasses(response')
         THEN /\ promptRet' = {response'.body}
              /\ generatedSpec' = response'.body
         ELSE /\ promptRet' = {{}}
              /\ promptError' # {}
              /\ generatedSpec' = generatedSpec]_vars

\* C19 witness: a payload that fails validation was received while
\* generatedSpec held the spec of an earlier call, and null was returned
C19_Witness ==
    /\ promptPc = "done"
    /\ response.got
    /\ response.body # {}
    /\ ~PayloadPasses(response)
    /\ promptRet = {{}}
    /\ promptError # {}
    /\ generatedSpec # {}

\* C20: one call makes at most 3 requests; a request is made after each
\* failure but the third; nothing is requested after a response; a success
\* on the third attempt returns the result with exactly 3 requests made;
\* after the third failure the call returns null with an error set.
C20_AtMostThreeRequests ==
    /\ [](requests <= 3)
    /\ [][/\ (promptPc = "fetching" /\ promptPc' = "backoff") => requests < 3
          /\ (promptPc = "backoff" /\ promptPc' # "backoff")
                => (promptPc' = "fetching" /\ requests' = requests + 1)
          /\ (promptPc = "fetching" /\ response'.got)
                => (promptPc' = "done" /\ requests' = requests)
          /\ (promptPc = "done" /\ promptPc' = "done") => requests' = requests
          /\ (Returns /\ ~response'.got)
                => /\ requests = 3
                   /\ requests' = 3
                   /\ promptRet' = {{}}
                   /\ promptError' # {}
                   /\ \A m \in promptError' : m # ""]_vars

\* C20 witness: a call that succeeded on its third request
C20_Witness ==
    /\ promptPc = "done"
    /\ requests = 3
    /\ PayloadPasses(response)
    /\ promptRet = {response.body}

(***************************************************************************)
(* Further properties of useNarrationSynthesis                             *)
(***************************************************************************)
\* C22: when synthesizeNarration has returned a segment map, progress is
\* 100, also for a spec without any narration chunk.
C22_ProgressCompleteAtReturn ==
    Returned => progress = 100

\* C24: the TTS requests are issued in scene order then chunk order, none
\* is skipped, and a request is issued only after the answer to the one
\* before: at most one request lacks its answer.
C24_OneRequestOutstanding ==
    /\ Len(ttsCalls) <= Len(durations) + 1
    /\ pc = "awaiting" => Len(ttsCalls) = Len(durations) + 1
    /\ \A k \in 1..(Len(ttsCalls) - 1) : IdBefore(ttsCalls[k], ttsCalls[k + 1])
    /\ \A k \in 1..Len(ttsCalls) :
          /\ ttsCalls[k] \in ExpectedIds
          /\ \A id \in ExpectedIds :
                IdBefore(id, ttsCalls[k]) => \E j \in 1..k : ttsCalls[j] = id

\* C24 witness: the third request of a run over two scenes is outstanding,
\* two answers received
C24_Witness ==
    /\ pc = "awaiting"
    /\ Len(ttsCalls) = 3
    /\ Len(durations) = 2
    /\ ttsCalls[1].scene # ttsCalls[3].scene

C21_LoadingWhileRunning ==
    /\ pc = "awaiting" => isLoading
    /\ pc = "done" => ~isLoading

(***************************************************************************)
(* Further properties of the playback time resolver                        *)
(***************************************************************************)
\* the progress the claim gives an event at a scene-relative time inside
\* its window: (rel - t) / duration, duration 1.0 s when absent
WindowProgress(e, rel) == Frac(rel - e.t, WindowEnd(e) - e.t)

\* startX + (endX - startX) * progress for the parameters as given
LinearX(e, prog) ==
    LET startX == CHOOSE v \in e.startX : TRUE
        endX == CHOOSE v \in e.endX : TRUE
    IN Frac(startX * prog[2] + (endX - startX) * prog[1], prog[2])

\* C25: in a scene whose only event is a straight_line puck animation with
\* startX and endX given, at every time inside the closed window
\* [t, t + duration] the resolved x equals
\* startX + (endX - startX) * progress, also for parameters equal to 0.
C25_StraightLineInterpolates ==
    (Called /\ HasEvents) =>
        \A k \in PuckIndices :
            (/\ Len(SceneEvents) = 1
             /\ SceneEvents[k].path = "straight_line"
             /\ SceneEvents[k].startX # {}
             /\ SceneEvents[k].endX # {}
             /\ InWindow(SceneEvents[k], RelTime))
            => animatedPuckPosition[1] =
                   LinearX(SceneEvents[k], WindowProgress(SceneEvents[k], RelTime))

(***************************************************************************)
(* Properties of the editor's scene operations                             *)
(***************************************************************************)
NonOverlapping(scenes) ==
    \A j, k \in 1..Len(scenes) :
        j # k => \/ scenes[j].end <= scenes[k].start
                 \/ scenes[k].end <= scenes[j].start

\* C27: after any sequence of addScene, deleteScene and moveScene on a
\* valid spec, no two scenes overlap in time.
C27_ScenesStayDisjoint ==
    NonOverlapping(editorSpec.scenes)

(***************************************************************************)
(* Properties of generateSubtitles                                         *)
(***************************************************************************)
RECURSIVE ChunksBefore(_)
\* number of narration chunks in scenes 1..n of vttSpec
ChunksBefore(n) == IF n = 0 THEN 0 ELSE ChunksBefore(n - 1) + vttSpec[n].narration

\* C23: the cues come in scene order then chunk order, one per chunk, with
\* id {sceneIndex+1}.{chunkIndex+1}; the cues of a scene divide its window:
\* the first starts at scene.start, consecutive cues abut and the last ends
\* at scene.end, in value and in the timestamps written.
C23_CuesDivideSceneEvenly ==
    vttDone =>
        /\ Len(vtt) = ChunksBefore(Len(vttSpec))
        /\ \A s \in 1..Len(vttSpec) :
              LET scene == vttSpec[s]
                  n == scene.narration
                  Cue(k) == vtt[ChunksBefore(s - 1) + k + 1]
              IN /\ \A k \in 0..(n - 1) : Cue(k).id = <<s, k + 1>>
                 /\ n >= 1 => /\ Cue(0).start = FromInt(scene.start)
                              /\ Cue(n - 1).end = FromInt(scene.end)
                              /\ Cue(n - 1).to = FormatVTTTime(FromInt(scene.end))
                 /\ \A k \in 0..(n - 2) :
                       /\ Cue(k).end = Cue(k + 1).start
                       /\ Cue(k).to = Cue(k + 1).from

(***************************************************************************)
(* Properties of the preview page                                          *)
(***************************************************************************)
\* C28: while playback is paused and no onCanPlay listener is left to run,
\* no narration audio plays: activeAudioSegments is empty and no audio
\* element has been started.
C28_SilentWhilePaused ==
    (mounted /\ ~isPlaying /\ canplayListeners = {}) =>
        /\ activeAudioSegments = {}
        /\ startedAudio = {}

\* C29: at most one animatePlayback callback is pending at any time, and
\* none while isPlaying is false.
C29_OneFramePending ==
    /\ Cardinality(pendingFrames) <= 1
    /\ ~isPlaying => pendingFrames = {}

\* C29 witness: playback running past its first frames, the one pending
\* callback being the one playbackAnimationFrame names
C29_Witness ==
    /\ isPlaying
    /\ playTime > FrameStep
    /\ playTime % FrameStep # 0
    /\ Cardinality(pendingFrames) = 1
    /\ pendingFrames = playbackAnimationFrame

\* playback has come to its end
PlaybackEnded ==
    /\ playTime = pageDuration
    /\ ~isPlaying
    /\ activeAudioSegments = {}
    /\ startedAudio = {}
    /\ pendingFrames = {}

\* C30: currentTime never exceeds the duration, and playback once started
\* and left alone reaches the end: currentTime is the duration, isPlaying
\* is false, all audio is stopped and no frame is scheduled.
C30_PlaybackReachesEnd ==
    /\ [](playTime <= pageDuration)
    /\ isPlaying ~> PlaybackEnded

====
